---------------------------- MODULE Spec2Model ----------------------------
(***************************************************************************)
(* A model of the dump-time part of ClassPrelinker                         *)
(* (src/hotspot/share/cds/classPrelinker.cpp): the class tables, the       *)
(* closure of the vm classes, the archivability predicate for resolved     *)
(* class references, the initiated-class tables, the preloaded-class       *)
(* recorder and the dump-time constant-pool resolution.                    *)
(***************************************************************************)
EXTENDS Integers, Sequences, FiniteSets, TLC

(***************************************************************************)
(* Bounds of the model.                                                    *)
(***************************************************************************)
MaxSessions == 2      \* initialize()/dispose() sessions in one process
MaxQueries == 1       \* can_archive_resolved_klass calls per session

(***************************************************************************)
(* The classes of the model.  Each stands for one Klass* of the dumped VM. *)
(***************************************************************************)
NoClass == "nullptr"

VmCandidates == {"Object", "Comparable", "Number", "Integer", "String"}
BootClasses ==
  VmCandidates \cup {"HexFormat", "JfrEvent", "LambdaFormMH", "HiddenX", "InvokerHolder"}
PlatformClasses == {"SqlDate"}
AppClasses == {"AppMain", "AppSub", "ModBase", "ModSub", "InitIntf", "SubIntf"}
CustomClasses == {"Custom"}
InstanceClasses == BootClasses \cup PlatformClasses \cup AppClasses \cup CustomClasses
ArrayClasses == {"IntArray"}
Classes == InstanceClasses \cup ArrayClasses

\* Klass::is_instance_klass()
is_instance_klass(k) == k \in InstanceClasses

\* InstanceKlass::java_super()
java_super(ik) ==
  CASE ik = "Object" -> NoClass
    [] ik = "Integer" -> "Number"
    [] ik = "AppSub" -> "AppMain"
    [] ik = "ModSub" -> "ModBase"
    [] OTHER -> "Object"

\* InstanceKlass::local_interfaces()
local_interfaces(ik) ==
  CASE ik = "String" -> <<"Comparable">>
    [] ik = "SqlDate" -> <<"Comparable">>
    [] ik = "AppSub" -> <<"Comparable">>
    [] ik = "SubIntf" -> <<"InitIntf">>
    [] OTHER -> <<>>

\* InstanceKlass::class_loader(): the defining loader
class_loader(ik) ==
  CASE ik \in BootClasses -> "boot"
    [] ik \in PlatformClasses -> "platform"
    [] ik \in AppClasses -> "app"
    [] OTHER -> "custom"

\* InstanceKlass::is_hidden()
is_hidden(ik) == ik \in {"LambdaFormMH", "HiddenX"}

\* InstanceKlass::shared_class_loader_type(): ClassLoader::BOOT_LOADER,
\* PLATFORM_LOADER, APP_LOADER, or OTHER when no type has been assigned
\* (classes of other loaders; HiddenX is a hidden class without a type yet).
shared_class_loader_type(ik) ==
  CASE ik = "HiddenX" -> "OTHER"
    [] class_loader(ik) = "boot" -> "BOOT_LOADER"
    [] class_loader(ik) = "platform" -> "PLATFORM_LOADER"
    [] class_loader(ik) = "app" -> "APP_LOADER"
    [] OTHER -> "OTHER"

is_shared_boot_class(ik) == shared_class_loader_type(ik) = "BOOT_LOADER"
is_shared_platform_class(ik) == shared_class_loader_type(ik) = "PLATFORM_LOADER"
is_shared_app_class(ik) == shared_class_loader_type(ik) = "APP_LOADER"

\* The direct supertypes of a class: its java_super and its local interfaces.
DirectSupers(ik) ==
  (IF java_super(ik) = NoClass THEN {} ELSE {java_super(ik)})
    \cup {local_interfaces(ik)[i] : i \in 1..Len(local_interfaces(ik))}

\* Klass::is_subtype_of(): reflexive and transitive over the declared
\* supertypes (the secondary-supers/super-chain check of the VM).
RECURSIVE AllSupers(_)
AllSupers(k) ==
  {k} \cup (IF k \in InstanceClasses
              THEN UNION {AllSupers(s) : s \in DirectSupers(k)}
              ELSE {})

is_subtype_of(k, ik) == ik \in AllSupers(k)

\* InstanceKlass::is_public()
is_public(ik) ==
  ik \in VmCandidates \cup {"HexFormat", "JfrEvent", "SqlDate", "AppMain"}

\* InstanceKlass::is_interface()
is_interface(ik) == ik \in {"Comparable", "InitIntf", "SubIntf"}

\* InstanceKlass::class_initializer() is not null: the class declares a
\* static initializer of its own.
has_class_initializer(ik) == ik \in {"InitIntf", "HexFormat"}

\* HeapShared::is_lambda_form_klass()
is_lambda_form_klass(ik) == ik = "LambdaFormMH"

\* ik->module()->name()->equals("java.base")
module_is_javabase(ik) == ik \in VmCandidates \cup {"HexFormat", "InvokerHolder"}

\* FileMapInfo::shared_path(ik->shared_classpath_index()): the entry is in a
\* named module and is not the modules image (a class from the module path).
scp_named_module_not_image(ik) == ik = "ModBase"

\* ArchiveBuilder::current()->klasses(): the classes being archived, in the
\* order the builder gathered them.
Klasses ==
  <<"AppSub", "Integer", "Object", "Comparable", "String", "Number",
    "HexFormat", "JfrEvent", "LambdaFormMH", "InvokerHolder", "SqlDate",
    "AppMain", "ModSub", "ModBase", "SubIntf", "InitIntf", "Custom",
    "IntArray">>

\* ArchiveBuilder::get_buffered_addr(ik)->shared_class_loader_type(): the
\* buffered copy carries the type of the defining loader.
buffered_shared_class_loader_type(ik) ==
  CASE class_loader(ik) = "boot" -> "BOOT_LOADER"
    [] class_loader(ik) = "platform" -> "PLATFORM_LOADER"
    [] class_loader(ik) = "app" -> "APP_LOADER"
    [] OTHER -> "OTHER"

\* The classes of the mapped base archive (a dynamic dump, or a final static
\* dump from a preimage): MetaspaceObj::is_shared() is true of them.
BaseArchiveClasses ==
  VmCandidates \cup {"HexFormat", "JfrEvent", "SqlDate", "AppMain"}

\* The dictionary of a loader at dump time: the classes it defines and the
\* classes of other loaders it has initiated (Dictionary::all_entries_do).
Dictionary(loader) ==
  CASE loader = "platform" -> {"SqlDate", "Object", "Comparable", "HexFormat"}
    [] loader = "app" ->
         {"AppMain", "AppSub", "ModBase", "ModSub", "InitIntf", "SubIntf",
          "Object", "HexFormat", "SqlDate"}
    [] OTHER -> {}

\* The vmClasses table of the build: vmClasses::klass_at(id) over all ids.
VmClassTables ==
  {<<"Integer">>, <<"Object", "String">>, <<"Object", "String", "Integer">>}

\* -XX:+PreloadSharedClasses
PreloadSharedClasses == TRUE

\* The PreloadedKlasses of the mapped base archive, as serialize() read it.
ListNames == {"boot", "boot2", "platform", "app", "platform_initiated", "app_initiated"}

NullKlasses ==
  [boot |-> <<>>, boot2 |-> <<>>, platform |-> <<>>, app |-> <<>>,
   platform_initiated |-> <<>>, app_initiated |-> <<>>, nulls |-> ListNames]

BaseArchiveKlasses ==
  [boot |-> <<"HexFormat">>, boot2 |-> <<"JfrEvent">>,
   platform |-> <<"SqlDate">>, app |-> <<"AppMain">>,
   platform_initiated |-> <<"Object", "HexFormat">>,
   app_initiated |-> <<"Object", "SqlDate">>, nulls |-> {}]

\* The dump configurations: the kind of archive being dumped
\* (CDSConfig::is_dumping_final_static_archive(), DynamicDumpSharedSpaces)
\* and CDSConfig::is_dumping_invokedynamic().
DumpConfigs ==
  {[kind |-> "static", indy |-> TRUE], [kind |-> "static", indy |-> FALSE],
   [kind |-> "dynamic", indy |-> FALSE], [kind |-> "final_static", indy |-> TRUE]}

(***************************************************************************)
(* The state.                                                              *)
(***************************************************************************)
VARIABLES
  config,               \* the dump configuration of the process
  static_klasses,       \* _static_preloaded_klasses
  dynamic_klasses,      \* _dynamic_preloaded_klasses
  null_tables,          \* which of the ClassesTable* statics are nullptr
  vm_classes,           \* _vm_classes
  preloaded_classes,    \* _preloaded_classes
  processed_classes,    \* _processed_classes
  platform_initiated,   \* _platform_initiated_classes: klass -> need_to_record
  app_initiated,        \* _app_initiated_classes: klass -> need_to_record
  num_vm_klasses,       \* _num_vm_klasses
  sessions,             \* number of initialize() calls so far
  queries,              \* can_archive_resolved_klass calls in this session
  stage,                \* where the dump driver is in the session
  last,                 \* the last operation, its arguments and its result
  linked,               \* the classes whose is_linked() is true
  cp,                   \* the constant pools: class -> index -> entry state
  pending_exception,    \* HAS_PENDING_EXCEPTION after the last resolution call
  loaded,               \* the loaded classes: pairs of defining loader and name
  indy_worklist,        \* _klasses_for_indy_resolution with
                        \* _cp_index_lists_for_indy_resolution
  passes,               \* preresolve_* calls so far
  runtime_config,       \* UseSharedSpaces and has_platform_or_app_classes()
                        \* of the process that maps the archive
  _class_preloading_finished,
  _preload_javabase_only,
  is_loaded,            \* the archived classes whose is_loaded() is true
  initiating,           \* pairs of loader and class that preload_class has
                        \* registered
  initialized_from_cds, \* the classes initialize_from_cds() has restored
  invocations,          \* the runtime_preload(loader) calls of the bootstrap
  javabase_initialized, \* init_javabase_preloaded_classes() has run
  replay_log,           \* what the runtime_preload calls did, in order
  observed_finished,    \* a reader has seen class_preloading_finished()
                        \* answer true
  archive_stream,       \* what the writing closures have written, per archive
  has_preloaded_classes,\* CDSConfig::has_preloaded_classes() of the dumping
                        \* and of the mapping process
  _unregistered_klasses_from_preimage,
  mapped,               \* the statics of the process that maps the archive,
                        \* as its reading closures left them
  _nticks,              \* VMThermostat::_nticks
  _start_nanos,         \* VMThermostat::_start_nanos
  overflowed_idle_samples, \* the locals of run_loop()
  overflow_sample,
  samples,
  missed,
  window_number,
  current,              \* the local of sample_window()
  thermostat_at,        \* where the thermostat thread is
  window_ticks          \* the ticks of the windows still to be written: for
                        \* each sample() call its idle ticks and its sample

vars == <<config, static_klasses, dynamic_klasses, null_tables, vm_classes, preloaded_classes, processed_classes,
          platform_initiated, app_initiated, num_vm_klasses, sessions,
          queries, stage, last, linked, cp, pending_exception, loaded,
          indy_worklist, passes, runtime_config, _class_preloading_finished,
          _preload_javabase_only, is_loaded, initiating, initialized_from_cds,
          invocations, javabase_initialized, replay_log, observed_finished,
          archive_stream, has_preloaded_classes,
          _unregistered_klasses_from_preimage, mapped, _nticks, _start_nanos,
          overflowed_idle_samples, overflow_sample, samples, missed,
          window_number, current, thermostat_at, window_ticks>>

\* What the replay at run time works on.
replay_vars ==
  <<runtime_config, _class_preloading_finished, _preload_javabase_only,
    is_loaded, initiating, initialized_from_cds, invocations,
    javabase_initialized, replay_log, observed_finished>>

\* What the resolution of constants works on.
\* What serialize() works on.
archive_vars ==
  <<archive_stream, has_preloaded_classes, _unregistered_klasses_from_preimage,
    mapped>>

\* What the thermostat thread works on.
thermostat_vars ==
  <<_nticks, _start_nanos, overflowed_idle_samples, overflow_sample, samples,
    missed, window_number, current, thermostat_at, window_ticks>>

\* What the resolution of constants works on, and with it what the rest of
\* a dump leaves alone.
resolve_vars ==
  <<linked, cp, pending_exception, loaded, indy_worklist, passes, replay_vars,
    archive_vars, thermostat_vars>>

TableNames == {"vm", "preloaded", "processed", "platform_initiated", "app_initiated"}

EmptyTable == [k \in {} |-> TRUE]

\* ResourceHashtable::put_if_absent(key, value, &created)
put_if_absent(table, key, value) ==
  IF key \in DOMAIN table THEN table ELSE (key :> value) @@ table

Call(op, holder, klass, ret, seeds) ==
  [op |-> op, holder |-> holder, klass |-> klass, ret |-> ret, seeds |-> seeds]

NoCall == Call("none", NoClass, NoClass, FALSE, <<>>)

(***************************************************************************)
(* add_one_vm_class, on the three statics it touches.                      *)
(***************************************************************************)
RECURSIVE add_one_vm_class(_, _)
RECURSIVE add_vm_interfaces(_, _, _)

\* A variant that leaves the local interfaces out.
add_vm_interfaces_skipped(t, ifs, i) == t

add_vm_interfaces(t, ifs, i) ==
  IF i > Len(ifs) THEN t
  ELSE add_vm_interfaces(add_one_vm_class(t, ifs[i]), ifs, i + 1)

\* A variant that does not follow java_super().
add_one_vm_class_no_super(t, ik) ==
  LET created == ik \notin t.vm
      t1 == [t EXCEPT !.pre = @ \cup {ik}, !.vm = @ \cup {ik}]
  IN IF ~created THEN t1
     ELSE add_vm_interfaces([t1 EXCEPT !.num = @ + 1], local_interfaces(ik), 1)

\* A variant that does not enter the class into _preloaded_classes.
add_one_vm_class_not_preloaded(t, ik) ==
  LET created == ik \notin t.vm
      t1 == [t EXCEPT !.vm = @ \cup {ik}]
  IN IF ~created THEN t1
     ELSE LET t2 == [t1 EXCEPT !.num = @ + 1]
              t3 == IF java_super(ik) # NoClass
                      THEN add_one_vm_class(t2, java_super(ik))
                      ELSE t2
          IN add_vm_interfaces(t3, local_interfaces(ik), 1)

add_one_vm_class(t, ik) ==
  LET created == ik \notin t.vm
      t1 == [t EXCEPT !.pre = @ \cup {ik}, !.vm = @ \cup {ik}]
  IN IF ~created THEN t1
     ELSE LET t2 == [t1 EXCEPT !.num = @ + 1]
              t3 == IF java_super(ik) # NoClass
                      THEN add_one_vm_class(t2, java_super(ik))
                      ELSE t2
          IN add_vm_interfaces(t3, local_interfaces(ik), 1)

RECURSIVE add_vm_class_list(_, _, _)
add_vm_class_list(t, ids, i) ==
  IF i > Len(ids) THEN t
  ELSE add_vm_class_list(add_one_vm_class(t, ids[i]), ids, i + 1)


\* The elements of a sequence.
Range(seq) == {seq[i] : i \in 1..Len(seq)}

(***************************************************************************)
(* The initiated-class tables.  it = [plat, app] are the two tables.      *)
(***************************************************************************)
\* add_initiated_klass on a table (put_if_absent with need_to_record = true)
add_initiated_klass_to(initiated_classes, target) ==
  put_if_absent(initiated_classes, target, TRUE)

\* A variant that takes the table of the target's loader, not the holder's.
add_initiated_klass_by_target(it, ik, target) ==
  IF shared_class_loader_type(ik) = shared_class_loader_type(target) THEN it
  ELSE IF class_loader(target) = "platform"
    THEN [it EXCEPT !.plat = put_if_absent(@, target, TRUE)]
    ELSE [it EXCEPT !.app = put_if_absent(@, target, TRUE)]

\* add_initiated_klass on a referencing class ik and its target
add_initiated_klass(it, ik, target) ==
  IF shared_class_loader_type(ik) = shared_class_loader_type(target) THEN it
  ELSE IF class_loader(ik) = "platform"
    THEN [it EXCEPT !.plat = add_initiated_klass_to(@, target)]
    ELSE [it EXCEPT !.app = add_initiated_klass_to(@, target)]

\* A variant that enters the classes with need_to_record = true.
RECURSIVE add_unrecorded_initiated_klasses_to_record(_, _, _)
add_unrecorded_initiated_klasses_to_record(table, klasses, i) ==
  IF i > Len(klasses) THEN table
  ELSE add_unrecorded_initiated_klasses_to_record(
         put_if_absent(table, klasses[i], TRUE), klasses, i + 1)

\* add_unrecorded_initiated_klasses
RECURSIVE add_unrecorded_initiated_klasses(_, _, _)
add_unrecorded_initiated_klasses(table, klasses, i) ==
  IF i > Len(klasses) THEN table
  ELSE add_unrecorded_initiated_klasses(
         put_if_absent(table, klasses[i], FALSE), klasses, i + 1)

\* RecordInitiatedClassesClosure::do_klass
RecordInitiatedClasses_do_klass(table, loader, k) ==
  IF is_instance_klass(k) /\ class_loader(k) # loader
    THEN add_initiated_klass_to(table, k)
    ELSE table

\* add_initiated_klasses_for_loader: all_entries_do over the dictionary.
\* The table is a map, so the order of the enumeration does not show.
add_initiated_klasses_for_loader(loader, table) ==
  LET added == {k \in Dictionary(loader) :
                  k \in DOMAIN RecordInitiatedClasses_do_klass(table, loader, k)}
  IN [k \in DOMAIN table \cup added |->
        IF k \in DOMAIN table THEN table[k] ELSE TRUE]

\* add_preloaded_klasses
add_preloaded_klasses(pre, klasses) == pre \cup Range(klasses)

(***************************************************************************)
(* can_archive_resolved_klass on a holder and a resolved class: the value  *)
(* returned (ret) and the initiated tables after the call (it).            *)
(***************************************************************************)
is_vm_class(ik) == ik \in vm_classes

is_preloaded_class(ik) == ik \in preloaded_classes

Answer(ret, it) == [ret |-> ret, it |-> it]

\* A variant without the supertype test.
can_archive_resolved_klass_no_subtype(it, cp_holder, resolved_klass) ==
  IF is_instance_klass(resolved_klass)
    THEN IF is_vm_class(cp_holder)
           THEN Answer(is_vm_class(resolved_klass), it)
         ELSE IF is_preloaded_class(resolved_klass)
           THEN IF is_shared_platform_class(cp_holder) \/ is_shared_app_class(cp_holder)
                  THEN Answer(TRUE, add_initiated_klass(it, cp_holder, resolved_klass))
                ELSE Answer(is_shared_boot_class(cp_holder)
                              \/ (is_hidden(cp_holder) /\ class_loader(cp_holder) = "boot"),
                            it)
         ELSE Answer(FALSE, it)
    ELSE Answer(FALSE, it)

\* A variant that takes a preloaded class for a vm-class holder.
can_archive_resolved_klass_vm_preloaded(it, cp_holder, resolved_klass) ==
  IF is_instance_klass(resolved_klass)
    THEN IF is_subtype_of(cp_holder, resolved_klass)
           THEN Answer(TRUE, it)
         ELSE IF is_vm_class(cp_holder)
           THEN Answer(is_preloaded_class(resolved_klass), it)
         ELSE IF is_preloaded_class(resolved_klass)
           THEN IF is_shared_platform_class(cp_holder) \/ is_shared_app_class(cp_holder)
                  THEN Answer(TRUE, add_initiated_klass(it, cp_holder, resolved_klass))
                ELSE Answer(is_shared_boot_class(cp_holder)
                              \/ (is_hidden(cp_holder) /\ class_loader(cp_holder) = "boot"),
                            it)
         ELSE Answer(FALSE, it)
    ELSE Answer(FALSE, it)

\* A variant without the branch for hidden classes of the boot loader.
can_archive_resolved_klass_no_hidden(it, cp_holder, resolved_klass) ==
  IF is_instance_klass(resolved_klass)
    THEN IF is_subtype_of(cp_holder, resolved_klass)
           THEN Answer(TRUE, it)
         ELSE IF is_vm_class(cp_holder)
           THEN Answer(is_vm_class(resolved_klass), it)
         ELSE IF is_preloaded_class(resolved_klass)
           THEN IF is_shared_platform_class(cp_holder) \/ is_shared_app_class(cp_holder)
                  THEN Answer(TRUE, add_initiated_klass(it, cp_holder, resolved_klass))
                ELSE Answer(is_shared_boot_class(cp_holder), it)
         ELSE Answer(FALSE, it)
    ELSE Answer(FALSE, it)

can_archive_resolved_klass(it, cp_holder, resolved_klass) ==
  IF is_instance_klass(resolved_klass)
    THEN IF is_subtype_of(cp_holder, resolved_klass)
           THEN Answer(TRUE, it)
         ELSE IF is_vm_class(cp_holder)
           THEN Answer(is_vm_class(resolved_klass), it)
         ELSE IF is_preloaded_class(resolved_klass)
           THEN IF is_shared_platform_class(cp_holder)
                  THEN Answer(TRUE, add_initiated_klass(it, cp_holder, resolved_klass))
                ELSE IF is_shared_app_class(cp_holder)
                  THEN Answer(TRUE, add_initiated_klass(it, cp_holder, resolved_klass))
                ELSE IF is_shared_boot_class(cp_holder)
                  THEN Answer(TRUE, it)
                ELSE IF is_hidden(cp_holder) /\ class_loader(cp_holder) = "boot"
                  THEN Answer(TRUE, it)
                ELSE Answer(FALSE, it)
         ELSE Answer(FALSE, it)
    ELSE Answer(FALSE, it)


(***************************************************************************)
(* PreloadedKlassRecorder.  r = [seen, list, pre, it]: _seen_klasses,      *)
(* _list, _preloaded_classes and the two initiated tables.                 *)
(***************************************************************************)
DynamicDumpSharedSpaces == config.kind = "dynamic"

is_dumping_final_static_archive == config.kind = "final_static"

\* MetaspaceObj::is_shared(): the class lives in the mapped base archive.
is_shared(ik) == config.kind # "static" /\ ik \in BaseArchiveClasses

is_in_javabase(ik) ==
  IF is_hidden(ik) /\ is_lambda_form_klass(ik) THEN TRUE
  ELSE module_is_javabase(ik)

\* A variant that takes the classes of every loader.
loader_type_matches_any(ik, loader_type) == TRUE

loader_type_matches(ik, loader_type) ==
  buffered_shared_class_loader_type(ik) = loader_type

RECURSIVE maybe_record(_, _, _, _)
RECURSIVE maybe_record_interfaces(_, _, _, _, _, _)

maybe_record_interfaces(r, ik, interfaces, index, loader_type, javabase_only) ==
  IF index > Len(interfaces) THEN r
  ELSE LET intf == interfaces[index]
           m == maybe_record(r, intf, loader_type, javabase_only)
       IN maybe_record_interfaces(
            [m EXCEPT !.it = add_initiated_klass(@, ik, intf)],
            ik, interfaces, index + 1, loader_type, javabase_only)

\* A variant that appends the class before it walks the supertypes.
maybe_record_append_first(r, ik, loader_type, javabase_only) ==
  IF ik \in r.seen THEN r
  ELSE LET r1 == [r EXCEPT !.seen = @ \cup {ik}] IN
    IF ~loader_type_matches(ik, loader_type) THEN r1
    ELSE IF is_hidden(ik) /\ ~config.indy THEN r1
    ELSE IF is_vm_class(ik) THEN r1
    ELSE IF loader_type = "BOOT_LOADER" /\ javabase_only # is_in_javabase(ik) THEN r1
    ELSE IF is_shared(ik) /\ DynamicDumpSharedSpaces THEN r1
    ELSE IF ~is_hidden(ik) /\ scp_named_module_not_image(ik) THEN r1
    ELSE LET s == java_super(ik)
             r0 == [r1 EXCEPT !.list = Append(@, ik), !.pre = @ \cup {ik}]
             r2 == IF s # NoClass
                     THEN LET m == maybe_record(r0, s, loader_type, javabase_only)
                          IN [m EXCEPT !.it = add_initiated_klass(@, ik, s)]
                     ELSE r0
         IN maybe_record_interfaces(r2, ik, local_interfaces(ik), 1,
                                    loader_type, javabase_only)

\* A variant without the test for vm classes.
maybe_record_vm(r, ik, loader_type, javabase_only) ==
  IF ik \in r.seen THEN r
  ELSE LET r1 == [r EXCEPT !.seen = @ \cup {ik}] IN
    IF ~loader_type_matches(ik, loader_type) THEN r1
    ELSE IF is_hidden(ik) /\ ~config.indy THEN r1
    ELSE IF loader_type = "BOOT_LOADER" /\ javabase_only # is_in_javabase(ik) THEN r1
    ELSE IF is_shared(ik) /\ DynamicDumpSharedSpaces THEN r1
    ELSE IF ~is_hidden(ik) /\ scp_named_module_not_image(ik) THEN r1
    ELSE LET s == java_super(ik)
             r2 == IF s # NoClass
                     THEN LET m == maybe_record(r1, s, loader_type, javabase_only)
                          IN [m EXCEPT !.it = add_initiated_klass(@, ik, s)]
                     ELSE r1
             r3 == maybe_record_interfaces(r2, ik, local_interfaces(ik), 1,
                                           loader_type, javabase_only)
         IN [r3 EXCEPT !.list = Append(@, ik), !.pre = @ \cup {ik}]

maybe_record(r, ik, loader_type, javabase_only) ==
  IF ik \in r.seen THEN r
  ELSE LET r1 == [r EXCEPT !.seen = @ \cup {ik}] IN
    IF ~loader_type_matches(ik, loader_type) THEN r1
    ELSE IF is_hidden(ik) /\ ~config.indy THEN r1
    ELSE IF is_vm_class(ik) THEN r1
    ELSE IF loader_type = "BOOT_LOADER" /\ javabase_only # is_in_javabase(ik) THEN r1
    ELSE IF is_shared(ik) /\ DynamicDumpSharedSpaces THEN r1
    ELSE IF ~is_hidden(ik) /\ scp_named_module_not_image(ik) THEN r1
    ELSE LET s == java_super(ik)
             r2 == IF s # NoClass
                     THEN LET m == maybe_record(r1, s, loader_type, javabase_only)
                          IN [m EXCEPT !.it = add_initiated_klass(@, ik, s)]
                     ELSE r1
             r3 == maybe_record_interfaces(r2, ik, local_interfaces(ik), 1,
                                           loader_type, javabase_only)
         IN [r3 EXCEPT !.list = Append(@, ik), !.pre = @ \cup {ik}]

\* PreloadedKlassRecorder::iterate
RECURSIVE recorder_iterate(_, _, _, _)
recorder_iterate(r, i, loader_type, javabase_only) ==
  IF i > Len(Klasses) THEN r
  ELSE recorder_iterate(
         IF is_instance_klass(Klasses[i])
           THEN maybe_record(r, Klasses[i], loader_type, javabase_only)
           ELSE r,
         i + 1, loader_type, javabase_only)

\* record_preloaded_klasses(int loader_type): a fresh recorder, the global
\* tables carried through.  The result is the recorder after iterate().
record_preloaded_klasses_for(g, loader_type, javabase_only) ==
  recorder_iterate([seen |-> {}, list |-> <<>>, pre |-> g.pre, it |-> g.it],
                   1, loader_type, javabase_only)

\* One assignment table->_x = record_preloaded_klasses(loader_type): g holds
\* the four lists written so far and the global tables.
record_one_list(g, list_name, r) ==
  [g EXCEPT ![list_name] = r.list, !.pre = r.pre, !.it = r.it]

\* A variant that takes every public class, whatever its loader.
RECURSIVE add_extra_initiated_klasses_any_loader(_, _, _)
add_extra_initiated_klasses_any_loader(app, table_app, i) ==
  IF Len(table_app) = 0 \/ i > Len(Klasses) THEN app
  ELSE LET k == Klasses[i] IN
    add_extra_initiated_klasses_any_loader(
      IF is_instance_klass(k) /\ is_public(k)
        THEN add_initiated_klass_to(app, k)
        ELSE app,
      table_app, i + 1)

\* add_extra_initiated_klasses: the app table after the pass over klasses().
RECURSIVE add_extra_initiated_klasses(_, _, _)
add_extra_initiated_klasses(app, table_app, i) ==
  IF Len(table_app) = 0 \/ i > Len(Klasses) THEN app
  ELSE LET k == Klasses[i] IN
    add_extra_initiated_klasses(
      IF /\ is_instance_klass(k)
         /\ is_public(k)
         /\ (is_shared_boot_class(k) \/ is_shared_platform_class(k))
        THEN add_initiated_klass_to(app, k)
        ELSE app,
      table_app, i + 1)

\* record_preloaded_klasses(bool is_static_archive): the four lists and the
\* global tables afterwards.
add_extra_initiated_klasses_of(g) ==
  [g EXCEPT !.it.app = add_extra_initiated_klasses(@, g.app, 1)]

record_list(g, list_name, loader_type, javabase_only) ==
  record_one_list(g, list_name,
                  record_preloaded_klasses_for(g, loader_type, javabase_only))

record_preloaded_klasses(pre, it) ==
  add_extra_initiated_klasses_of(
    record_list(
      record_list(
        record_list(
          record_list([boot |-> <<>>, boot2 |-> <<>>, platform |-> <<>>,
                       app |-> <<>>, pre |-> pre, it |-> it],
                      "boot", "BOOT_LOADER", TRUE),
          "boot2", "BOOT_LOADER", FALSE),
        "platform", "PLATFORM_LOADER", FALSE),
      "app", "APP_LOADER", FALSE))

\* SystemDictionaryShared::is_excluded_class()
is_excluded_class(ik) == ik = "HiddenX"

\* record_initiated_klasses(ClassesTable*): the entries that need recording.
\* The table is iterated in hash order; the model lists them in the order of
\* klasses().
RECURSIVE record_initiated_klasses(_, _, _)
record_initiated_klasses(table, i, acc) ==
  IF i > Len(Klasses) THEN acc
  ELSE LET ik == Klasses[i] IN
    record_initiated_klasses(table, i + 1,
      IF ik \notin DOMAIN table THEN acc
      ELSE IF ~table[ik] THEN acc
      ELSE IF (is_dumping_final_static_archive \/ ~is_shared(ik)) /\ is_excluded_class(ik)
        THEN acc
      ELSE Append(acc, ik))


(***************************************************************************)
(* The constant pools.  Every pool of the model has the same layout; entry *)
(* i of the sequence is cp_index i (index 0 is unused).  The state of an   *)
(* entry is "unresolved", "resolved" or, for a class entry, "in_error"     *)
(* (JVM_CONSTANT_UnresolvedClassInError).                                  *)
(***************************************************************************)
\* The entries: a string, a class by name, a field or method reference with
\* the index of its class entry, a dynamic call site with its bootstrap
\* method and the type its signature returns.  A field reference says
\* whether find_field finds the field in the class and whether the field is
\* static.
StringEntry ==
  [kind |-> "String", name |-> NoClass, klass_index |-> 0, found |-> FALSE,
   static |-> FALSE, bsm |-> <<>>]

ClassEntry(name) ==
  [kind |-> "Class", name |-> name, klass_index |-> 0, found |-> FALSE,
   static |-> FALSE, bsm |-> <<>>]

FieldrefEntry(klass_index, found, static) ==
  [kind |-> "Fieldref", name |-> NoClass, klass_index |-> klass_index,
   found |-> found, static |-> static, bsm |-> <<>>]

MethodrefEntry(klass_index) ==
  [kind |-> "Methodref", name |-> NoClass, klass_index |-> klass_index,
   found |-> TRUE, static |-> FALSE, bsm |-> <<>>]

\* bsm = <<bsm_klass, bsm_name, bsm_signature>>; name is the return type of
\* the call site's signature.
IndyEntry(bsm, type) ==
  [kind |-> "InvokeDynamic", name |-> type, klass_index |-> 0, found |-> FALSE,
   static |-> FALSE, bsm |-> bsm]

StringConcatBsm == <<"StringConcatFactory", "makeConcatWithConstants", "concat_sig">>
MetafactoryBsm == <<"LambdaMetafactory", "metafactory", "metafactory_sig">>
AltMetafactoryBsm == <<"LambdaMetafactory", "altMetafactory", "altMetafactory_sig">>
OtherBsm == <<"ObjectMethods", "bootstrap", "other_sig">>

PoolLayout ==
  <<StringEntry,
    ClassEntry("Object"),
    ClassEntry("Custom"),
    FieldrefEntry(2, TRUE, FALSE),
    MethodrefEntry(6),
    ClassEntry("MethodHandle"),
    FieldrefEntry(3, TRUE, FALSE),
    MethodrefEntry(2),
    ClassEntry("HexFormat"),
    FieldrefEntry(9, TRUE, FALSE),
    FieldrefEntry(9, TRUE, TRUE),
    FieldrefEntry(2, FALSE, FALSE),
    IndyEntry(StringConcatBsm, NoClass),
    IndyEntry(MetafactoryBsm, "Comparable"),
    IndyEntry(MetafactoryBsm, "SubIntf"),
    IndyEntry(OtherBsm, NoClass)>>

\* The bytecodes of the methods of a class that refer to the pool, in the
\* order BytecodeStream yields them.
Bytecodes ==
  <<[bc |-> "getfield", index |-> 4], [bc |-> "invokestatic", index |-> 5],
    [bc |-> "putfield", index |-> 7], [bc |-> "invokespecial", index |-> 8],
    [bc |-> "getstatic", index |-> 4], [bc |-> "invokevirtual", index |-> 5],
    [bc |-> "getfield", index |-> 10], [bc |-> "getstatic", index |-> 11],
    [bc |-> "getfield", index |-> 12]>>

\* The classes whose pools the model follows.
PoolHolders == {"InvokerHolder", "LambdaFormMH", "AppMain", "Custom"}

\* The pools as the training run left them.
InitialPool(ik) ==
  [i \in 1..Len(PoolLayout) |->
     IF ik = "AppMain" /\ i = 2 THEN "resolved" ELSE "unresolved"]

\* What a resolution may run into: nothing, or an exception thrown when the
\* entry at index is resolved.
NoFault == [index |-> 0, error |-> "none"]

Faults ==
  {NoFault,
   [index |-> 1, error |-> "OutOfMemoryError"],
   [index |-> 2, error |-> "LinkageError"],
   [index |-> 2, error |-> "OutOfMemoryError"],
   [index |-> 6, error |-> "LinkageError"],
   [index |-> 4, error |-> "LinkageError"],
   [index |-> 5, error |-> "LinkageError"]}

\* A null GrowableArray<bool>* preresolve_list.
NoList == <<>>

UseNewCode == FALSE
UseNewCode2 == FALSE
ArchiveInvokeDynamic == config.indy

\* CDSConfig::is_dumping_heap(): only a static dump writes the heap.
is_dumping_heap == config.kind # "dynamic"

\* SystemDictionaryShared::is_builtin_loader(ik->class_loader_data())
is_builtin_loader(ik) == class_loader(ik) \in {"boot", "platform", "app"}

\* LambdaFormInvokers::may_be_regenerated_class(ik->name())
may_be_regenerated_class(ik) == ik = "InvokerHolder"

\* HeapShared::is_archivable_hidden_klass(ik)
is_archivable_hidden_klass(ik) == is_lambda_form_klass(ik)

\* cp->cache() is created when the class is linked.
has_cp_cache(ik) == ik \in linked

\* The classes loaded when the dump starts, each with its defining loader.
InitiallyLoaded ==
  {<<class_loader(c), c>> : c \in InstanceClasses}
    \cup {<<"boot", c>> : c \in ArrayClasses \cup {"MethodHandle"}}

\* _klasses_for_indy_resolution == nullptr
NoWorklist == <<>>

\* SystemDictionary::find_instance_or_array_klass(name, loader)
find_instance_or_array_klass(name, loader) ==
  LET visible == CASE loader = "boot" ->
                       {c \in BootClasses : ~is_hidden(c)} \cup ArrayClasses
                         \cup {"MethodHandle"}
                  [] loader \in {"platform", "app"} -> Dictionary(loader)
                  [] OTHER -> {}
  IN IF name \in visible THEN name ELSE NoClass

\* find_loaded_class(current, class_loader, name)
RECURSIVE find_loaded_class(_, _)
find_loaded_class(loader, name) ==
  IF find_instance_or_array_klass(name, loader) # NoClass THEN name
  ELSE IF loader = "app" THEN find_loaded_class("platform", name)
  ELSE IF loader = "platform" THEN find_loaded_class("boot", name)
  ELSE NoClass

(***************************************************************************)
(* Resolution of one pool.  s = [cp, exc]: the entry states of the pool    *)
(* and HAS_PENDING_EXCEPTION.                                              *)
(***************************************************************************)
\* ConstantPool::string_at_impl
string_at_impl(s, cp_index, fault) ==
  IF s.cp[cp_index] = "resolved" THEN s
  ELSE IF fault.index = cp_index THEN [s EXCEPT !.exc = TRUE]
  ELSE [s EXCEPT !.cp[cp_index] = "resolved"]

resolve_string(s, cp_index, fault) ==
  IF ~is_dumping_heap THEN s ELSE string_at_impl(s, cp_index, fault)

\* The string loop of dumptime_resolve_constants; CHECK leaves the loop.
RECURSIVE resolve_strings(_, _, _)
RECURSIVE resolve_strings_checked(_, _, _)
resolve_strings_checked(s, cp_index, fault) ==
  IF s.exc THEN s ELSE resolve_strings(s, cp_index + 1, fault)

resolve_strings(s, cp_index, fault) ==
  IF cp_index > Len(PoolLayout) THEN s
  ELSE IF PoolLayout[cp_index].kind = "String"
    THEN resolve_strings_checked(resolve_string(s, cp_index, fault), cp_index, fault)
    ELSE resolve_strings(s, cp_index + 1, fault)

\* SystemDictionary::resolve_or_fail for the class named by an entry of the
\* pool of ik: a class that find_loaded_class does not find gets loaded.
loaded_after_resolve(s, ik, cp_index) ==
  IF find_loaded_class(class_loader(ik), PoolLayout[cp_index].name) = NoClass
    THEN s.loaded \cup {<<class_loader(ik), PoolLayout[cp_index].name>>}
    ELSE s.loaded

\* ConstantPool::klass_at on the pool of ik: a LinkageError is recorded in
\* the tag.
klass_at(s, ik, cp_index, fault) ==
  IF s.cp[cp_index] = "resolved" THEN s
  ELSE IF s.cp[cp_index] = "in_error" THEN [s EXCEPT !.exc = TRUE]
  ELSE IF fault.index = cp_index
    THEN IF fault.error = "LinkageError"
           THEN [s EXCEPT !.cp[cp_index] = "in_error", !.exc = TRUE]
           ELSE [s EXCEPT !.exc = TRUE]
  ELSE [s EXCEPT !.cp[cp_index] = "resolved",
                 !.loaded = loaded_after_resolve(s, ik, cp_index)]

\* CLEAR_PENDING_EXCEPTION
clear_pending_exception(s) == [s EXCEPT !.exc = FALSE]

\* A variant that resolves class entries whether or not the class is loaded.
RECURSIVE preresolve_class_loop_unloaded(_, _, _, _, _)
preresolve_class_loop_unloaded(s, ik, preresolve_list, cp_index, fault) ==
  IF cp_index > Len(PoolLayout) THEN s
  ELSE preresolve_class_loop_unloaded(
         IF PoolLayout[cp_index].kind = "Class" /\ s.cp[cp_index] = "unresolved"
           THEN IF preresolve_list # NoList /\ ~preresolve_list[cp_index] THEN s
                ELSE clear_pending_exception(klass_at(s, ik, cp_index, fault))
           ELSE s,
         ik, preresolve_list, cp_index + 1, fault)

RECURSIVE preresolve_class_loop(_, _, _, _, _)
preresolve_class_loop(s, ik, preresolve_list, cp_index, fault) ==
  IF cp_index > Len(PoolLayout) THEN s
  ELSE preresolve_class_loop(
         IF PoolLayout[cp_index].kind = "Class" /\ s.cp[cp_index] = "unresolved"
           THEN IF preresolve_list # NoList /\ ~preresolve_list[cp_index] THEN s
                ELSE IF find_loaded_class(class_loader(ik), PoolLayout[cp_index].name) = NoClass
                  THEN s
                ELSE clear_pending_exception(klass_at(s, ik, cp_index, fault))
           ELSE s,
         ik, preresolve_list, cp_index + 1, fault)

preresolve_class_cp_entries(s, ik, preresolve_list, fault) ==
  IF ~PreloadSharedClasses THEN s
  ELSE IF ~is_builtin_loader(ik) THEN s
  ELSE preresolve_class_loop(s, ik, preresolve_list, 1, fault)

\* InterpreterRuntime::resolve_get_put, cds_resolve_invoke,
\* cds_resolve_invokehandle: the cache entry of cp_index gets resolved.
resolve_cache_entry(s, cp_index, fault) ==
  IF fault.index = cp_index THEN [s EXCEPT !.exc = TRUE]
  ELSE IF PoolLayout[cp_index].kind = "Fieldref" /\ ~PoolLayout[cp_index].found
    THEN [s EXCEPT !.exc = TRUE]
  ELSE [s EXCEPT !.cp[cp_index] = "resolved"]

\* maybe_resolve_fmi_ref from cp->klass_ref_at(raw_index, bc, CHECK) on.
resolve_fmi_ref(s, bc, cp_index, fault) ==
  IF s.exc THEN s
  ELSE CASE bc \in {"getstatic", "putstatic"} ->
              IF ~UseNewCode THEN s ELSE resolve_cache_entry(s, cp_index, fault)
         [] bc \in {"getfield", "putfield", "nofast_getfield", "nofast_putfield"} ->
              resolve_cache_entry(s, cp_index, fault)
         [] bc = "invokevirtual" -> resolve_cache_entry(s, cp_index, fault)
         [] bc \in {"invokeinterface", "invokespecial"} ->
              IF ~UseNewCode THEN s ELSE resolve_cache_entry(s, cp_index, fault)
         [] bc = "invokehandle" -> resolve_cache_entry(s, cp_index, fault)
         [] bc = "invokestatic" ->
              IF ~UseNewCode
                   /\ PoolLayout[PoolLayout[cp_index].klass_index].name
                        \notin {"MethodHandle", "MethodHandleNatives"}
                THEN s
                ELSE resolve_cache_entry(s, cp_index, fault)

maybe_resolve_fmi_ref(s, ik, bc, cp_index, preresolve_list, fault) ==
  IF /\ \/ bc \in {"invokehandle", "invokestatic", "invokespecial", "invokevirtual"}
        \/ (bc = "invokeinterface" /\ UseNewCode)
     /\ s.cp[cp_index] = "resolved"
    THEN s
  ELSE IF preresolve_list # NoList /\ ~preresolve_list[cp_index] /\ ~UseNewCode2
    THEN s
  ELSE LET klass_cp_index == PoolLayout[cp_index].klass_index IN
    IF s.cp[klass_cp_index] = "resolved"
      THEN resolve_fmi_ref(klass_at(s, ik, klass_cp_index, fault), bc, cp_index, fault)
    ELSE IF s.cp[klass_cp_index] = "in_error" THEN s
    ELSE IF find_loaded_class(class_loader(ik), PoolLayout[klass_cp_index].name) = NoClass
      THEN s
    ELSE resolve_fmi_ref(klass_at(s, ik, klass_cp_index, fault), bc, cp_index, fault)

RECURSIVE preresolve_fmi_loop(_, _, _, _, _)
preresolve_fmi_loop(s, ik, preresolve_list, i, fault) ==
  IF i > Len(Bytecodes) THEN s
  ELSE LET raw_bc == Bytecodes[i].bc
           resolved == clear_pending_exception(
                         maybe_resolve_fmi_ref(s, ik, raw_bc, Bytecodes[i].index,
                                               preresolve_list, fault))
       IN preresolve_fmi_loop(
            CASE raw_bc \in {"getstatic", "putstatic"} ->
                   IF ~UseNewCode THEN s ELSE resolved
              [] raw_bc \in {"getfield", "nofast_getfield", "putfield", "nofast_putfield"} ->
                   resolved
              [] raw_bc = "invokehandle" ->
                   IF ~ArchiveInvokeDynamic /\ ~UseNewCode THEN s
                   ELSE IF ~UseNewCode THEN s
                   ELSE resolved
              [] raw_bc \in {"invokevirtual", "invokeinterface"} ->
                   IF ~UseNewCode THEN s ELSE resolved
              [] raw_bc \in {"invokespecial", "invokestatic"} -> resolved
              [] OTHER -> s,
            ik, preresolve_list, i + 1, fault)

preresolve_field_and_method_cp_entries(s, ik, preresolve_list, fault) ==
  IF ~has_cp_cache(ik) THEN s
  ELSE preresolve_fmi_loop(s, ik, preresolve_list, 1, fault)

(***************************************************************************)
(* Dynamic call sites.                                                     *)
(***************************************************************************)
\* HeapShared::can_write()
can_write == is_dumping_heap

\* SystemDictionaryShared::is_builtin(cp->pool_holder())
is_builtin(ik) == is_builtin_loader(ik)

\* A variant that looks at the class and its superclasses only.
RECURSIVE has_clinit_no_interfaces(_)
has_clinit_no_interfaces(ik) ==
  IF has_class_initializer(ik) THEN TRUE
  ELSE java_super(ik) # NoClass /\ has_clinit_no_interfaces(java_super(ik))

RECURSIVE has_clinit(_)
RECURSIVE has_clinit_interfaces(_, _)
has_clinit_interfaces(interfaces, index) ==
  IF index > Len(interfaces) THEN FALSE
  ELSE IF has_clinit(interfaces[index]) THEN TRUE
  ELSE has_clinit_interfaces(interfaces, index + 1)

has_clinit(ik) ==
  IF has_class_initializer(ik) THEN TRUE
  ELSE IF java_super(ik) # NoClass /\ has_clinit(java_super(ik)) THEN TRUE
  ELSE has_clinit_interfaces(local_interfaces(ik), 1)

\* A variant that does not compare the signature of the bootstrap method.
is_indy_archivable_any_signature(holder, entry) ==
  IF ~ArchiveInvokeDynamic \/ ~can_write THEN FALSE
  ELSE IF ~is_builtin(holder) THEN FALSE
  ELSE IF entry.bsm[1] = "StringConcatFactory" /\ entry.bsm[2] = "makeConcatWithConstants"
    THEN TRUE
  ELSE IF /\ entry.bsm[1] = "LambdaMetafactory"
          /\ entry.bsm[2] \in {"metafactory", "altMetafactory"}
    THEN LET k == find_loaded_class(class_loader(holder), entry.name) IN
         IF k = NoClass THEN FALSE
         ELSE IF ~is_interface(k) THEN FALSE
         ELSE IF has_clinit(k) THEN FALSE
         ELSE TRUE
  ELSE FALSE

\* is_indy_archivable on a call site entry of the pool of holder.
is_indy_archivable(holder, entry) ==
  IF ~ArchiveInvokeDynamic \/ ~can_write THEN FALSE
  ELSE IF ~is_builtin(holder) THEN FALSE
  ELSE IF entry.bsm[1] = "StringConcatFactory" /\ entry.bsm[2] = "makeConcatWithConstants"
    THEN TRUE
  ELSE IF /\ entry.bsm[1] = "LambdaMetafactory"
          /\ \/ (entry.bsm[2] = "metafactory" /\ entry.bsm[3] = "metafactory_sig")
             \/ (entry.bsm[2] = "altMetafactory" /\ entry.bsm[3] = "altMetafactory_sig")
    THEN LET k == find_loaded_class(class_loader(holder), entry.name) IN
         IF k = NoClass THEN FALSE
         ELSE IF ~is_interface(k) THEN FALSE
         ELSE IF has_clinit(k) THEN FALSE
         ELSE TRUE
  ELSE FALSE

\* The loop of preresolve_indy_cp_entries over resolved_indy_entries().
RECURSIVE preresolve_indy_loop(_, _, _, _, _)
preresolve_indy_loop(s, ik, preresolve_list, cp_index, fault) ==
  IF cp_index > Len(PoolLayout) THEN s
  ELSE preresolve_indy_loop(
         IF PoolLayout[cp_index].kind # "InvokeDynamic" THEN s
         ELSE IF /\ preresolve_list[cp_index]
                 /\ s.cp[cp_index] # "resolved"
                 /\ is_indy_archivable(ik, PoolLayout[cp_index])
           THEN clear_pending_exception(resolve_cache_entry(s, cp_index, fault))
         ELSE IF UseNewCode /\ s.cp[cp_index] # "resolved"
           THEN clear_pending_exception(resolve_cache_entry(s, cp_index, fault))
         ELSE s,
         ik, preresolve_list, cp_index + 1, fault)

preresolve_indy_cp_entries(s, ik, preresolve_list, fault) ==
  IF ~(ArchiveInvokeDynamic \/ UseNewCode) \/ ~has_cp_cache(ik) THEN s
  ELSE preresolve_indy_loop(s, ik, preresolve_list, 1, fault)

(***************************************************************************)
(* record_resolved_indys(): pools holds the entry states of every pool,    *)
(* worklist the value of _klasses_for_indy_resolution together with        *)
(* _cp_index_lists_for_indy_resolution.                                    *)
(***************************************************************************)
\* A variant that collects the call sites that are not resolved.
RECURSIVE unresolved_indy_indices(_, _)
unresolved_indy_indices(pool, cp_index) ==
  IF cp_index > Len(PoolLayout) THEN <<>>
  ELSE (IF PoolLayout[cp_index].kind = "InvokeDynamic" /\ pool[cp_index] # "resolved"
          THEN <<cp_index>> ELSE <<>>)
         \o unresolved_indy_indices(pool, cp_index + 1)

\* The inner loop over resolved_indy_entries(): the indices appended.
RECURSIVE resolved_indy_indices(_, _)
resolved_indy_indices(pool, cp_index) ==
  IF cp_index > Len(PoolLayout) THEN <<>>
  ELSE (IF PoolLayout[cp_index].kind = "InvokeDynamic" /\ pool[cp_index] = "resolved"
          THEN <<cp_index>> ELSE <<>>)
         \o resolved_indy_indices(pool, cp_index + 1)

\* A variant of the loop without the test indices.length() > 0.
RECURSIVE record_resolved_indys_loop_every_class(_, _, _)
record_resolved_indys_loop_every_class(pools, i, tmp) ==
  IF i > Len(Klasses) THEN tmp
  ELSE record_resolved_indys_loop_every_class(
         pools, i + 1,
         IF /\ Klasses[i] \in PoolHolders
            /\ has_cp_cache(Klasses[i])
           THEN Append(tmp, [klass |-> Klasses[i],
                             indices |-> resolved_indy_indices(pools[Klasses[i]], 1)])
           ELSE tmp)

\* The loop over ArchiveBuilder::current()->klasses().
RECURSIVE record_resolved_indys_loop(_, _, _)
record_resolved_indys_loop(pools, i, tmp) ==
  IF i > Len(Klasses) THEN tmp
  ELSE record_resolved_indys_loop(
         pools, i + 1,
         IF /\ Klasses[i] \in PoolHolders
            /\ has_cp_cache(Klasses[i])
            /\ Len(resolved_indy_indices(pools[Klasses[i]], 1)) > 0
           THEN Append(tmp, [klass |-> Klasses[i],
                             indices |-> resolved_indy_indices(pools[Klasses[i]], 1)])
           ELSE tmp)

record_resolved_indys(pools, worklist) ==
  IF Len(record_resolved_indys_loop(pools, 1, <<>>)) > 0
    THEN record_resolved_indys_loop(pools, 1, <<>>)
    ELSE worklist

(***************************************************************************)
(* preresolve_indys_from_preimage(): w holds the pools and the loaded      *)
(* classes, worklist the two arrays read from the preimage.                *)
(***************************************************************************)
\* A variant that marks every index of the pool.
preimage_preresolve_everything(cp_indices) ==
  [cp_index \in 1..Len(PoolLayout) |-> TRUE]

\* The preresolve_list of one class: false everywhere but at cp_indices.
preimage_preresolve_list(cp_indices) ==
  [cp_index \in 1..Len(PoolLayout) |->
     \E j \in 1..Len(cp_indices) : cp_indices[j] = cp_index]

\* What one round of the loop leaves: s is the result of
\* preresolve_indy_cp_entries on the pool of ik.
after_preimage_round(w, ik, s) ==
  [pools |-> [w.pools EXCEPT ![ik] = s.cp], loaded |-> s.loaded]

RECURSIVE preresolve_indys_from_preimage_loop(_, _, _, _)
preresolve_indys_from_preimage_loop(w, worklist, i, fault) ==
  IF i > Len(worklist) THEN w
  ELSE preresolve_indys_from_preimage_loop(
         after_preimage_round(
           w, worklist[i].klass,
           preresolve_indy_cp_entries(
             [cp |-> w.pools[worklist[i].klass], exc |-> FALSE, loaded |-> w.loaded],
             worklist[i].klass,
             preimage_preresolve_list(worklist[i].indices), fault)),
         worklist, i + 1, fault)

preresolve_indys_from_preimage(w, worklist, fault) ==
  IF worklist # NoWorklist
    THEN preresolve_indys_from_preimage_loop(w, worklist, 1, fault)
    ELSE w

(***************************************************************************)
(* The archive as the closures of serialize() see it, and the thermostat   *)
(* thread before its first window.                                         *)
(***************************************************************************)
\* A pointer field is nullptr or points to an archived array.
NullPtr == [null |-> TRUE, array |-> <<>>]

ArrayPtr(array) == [null |-> FALSE, array |-> array]

\* No closure has written to either archive, and the process that maps the
\* archives has its statics as they are initialized.
NothingWritten == [static |-> <<>>, dynamic |-> <<>>]

NothingMapped ==
  [static |-> NullKlasses, dynamic |-> NullKlasses, worklist |-> <<>>,
   unregistered |-> NullPtr]

\* samples_per_window and sampling_interval_nanos, scaled down.
samples_per_window == 3

sampling_interval_nanos == 2

(***************************************************************************)
(* serialize(soc, is_static_archive): g holds the closure, the table and   *)
(* the three statics of the worklist, and tells whether the call has       *)
(* flagged the archive.                                                    *)
(***************************************************************************)
\* SerializeClosure::do_ptr(&p): a writing closure appends the pointer to
\* the stream, a reading closure stores the next pointer of the stream.
do_ptr(soc, p) ==
  IF soc.reading
    THEN [soc |-> [soc EXCEPT !.stream = Tail(@)], p |-> Head(soc.stream)]
    ELSE [soc |-> [soc EXCEPT !.stream = Append(@, p)], p |-> p]

\* The pointer in the field of a table, and the table with a pointer stored.
FieldPtr(table, name) ==
  IF name \in table.nulls THEN NullPtr ELSE ArrayPtr(table[name])

SetField(table, name, p) ==
  IF p.null
    THEN [table EXCEPT ![name] = <<>>, !.nulls = @ \cup {name}]
    ELSE [table EXCEPT ![name] = p.array, !.nulls = @ \ {name}]

\* _klasses_for_indy_resolution and _cp_index_lists_for_indy_resolution of
\* a worklist, and the worklist of the two arrays.
KlassesPtr(worklist) ==
  IF worklist = NoWorklist THEN NullPtr
  ELSE ArrayPtr([i \in 1..Len(worklist) |-> worklist[i].klass])

CpIndexListsPtr(worklist) ==
  IF worklist = NoWorklist THEN NullPtr
  ELSE ArrayPtr([i \in 1..Len(worklist) |-> worklist[i].indices])

WorklistOf(klasses, cp_index_lists) ==
  IF klasses.null THEN NoWorklist
  ELSE [i \in 1..Len(klasses.array) |->
          [klass |-> klasses.array[i],
           indices |-> IF cp_index_lists.null \/ i > Len(cp_index_lists.array)
                         THEN <<>> ELSE cp_index_lists.array[i]]]

\* soc->do_ptr((void**)&table->_x)
serialize_field(g, name) ==
  [g EXCEPT !.soc = do_ptr(g.soc, FieldPtr(g.table, name)).soc,
            !.table = SetField(g.table, name,
                               do_ptr(g.soc, FieldPtr(g.table, name)).p)]

\* The six lists of the table, in the order of the calls.
serialize_lists(g) ==
  serialize_field(
    serialize_field(
      serialize_field(
        serialize_field(
          serialize_field(
            serialize_field(g, "boot"),
            "boot2"),
          "platform"),
        "platform_initiated"),
      "app"),
    "app_initiated")

\* soc->do_ptr on one of the three statics of the static archive.
serialize_static(g, name) ==
  [g EXCEPT !.soc = do_ptr(g.soc, g[name]).soc,
            ![name] = do_ptr(g.soc, g[name]).p]

\* A variant that leaves the worklist to the dump that wrote it.
serialize_worklist_when_writing(g, is_static_archive) ==
  IF is_static_archive /\ ~g.soc.reading
    THEN serialize_static(
           serialize_static(
             serialize_static(g, "klasses"),
             "unregistered"),
           "cp_index_lists")
    ELSE g

\* if (is_static_archive) { ... }
serialize_worklist(g, is_static_archive) ==
  IF is_static_archive
    THEN serialize_static(
           serialize_static(
             serialize_static(g, "klasses"),
             "unregistered"),
           "cp_index_lists")
    ELSE g

\* The test on table->_boot and CDSConfig::set_has_preloaded_classes().
flag_preloaded_classes(g) ==
  [g EXCEPT !.flagged = "boot" \notin g.table.nulls /\ Len(g.table.boot) > 0]

serialize(g, is_static_archive) ==
  flag_preloaded_classes(
    serialize_worklist(serialize_lists(g), is_static_archive))

\* The state serialize() starts from: a closure, a table and the statics.
SerializeFrom(reading, stream, table, worklist, unregistered) ==
  [soc |-> [reading |-> reading, stream |-> stream],
   table |-> table,
   klasses |-> KlassesPtr(worklist),
   unregistered |-> unregistered,
   cp_index_lists |-> CpIndexListsPtr(worklist),
   flagged |-> FALSE]

(***************************************************************************)
(* VMThermostat: wait_for_tick(), sample() and sample_window().  A Sample  *)
(* is its mode.                                                            *)
(***************************************************************************)
MIN2(a, b) == IF a < b THEN a ELSE b

\* wait_for_tick(): late is now_nanos - next_nanos when the loop leaves the
\* wait, and now_nanos itself at the first tick.
wait_for_tick(nticks, start_nanos, late) ==
  IF nticks = 0
    THEN [ret |-> late \div sampling_interval_nanos, nticks |-> 1,
          start_nanos |-> late]
  ELSE IF late > sampling_interval_nanos
    THEN [ret |-> late \div sampling_interval_nanos,
          nticks |-> nticks + 1 + (late \div sampling_interval_nanos),
          start_nanos |-> start_nanos]
  ELSE [ret |-> 0, nticks |-> nticks + 1, start_nanos |-> start_nanos]

\* sample(overslept, the_sample): target is what select_target() returns,
\* duration the time Handshake::execute took, mode what do_thread stored.
sample(overslept, target, duration, mode) ==
  IF target = "nullptr"
    THEN [the_sample |-> "NONE", idle_ticks |-> overslept]
    ELSE [the_sample |-> mode,
          idle_ticks |-> overslept + (duration \div sampling_interval_nanos)]

\* The array with value written to count slots after the first from slots.
FillSlots(array, from, count, value) ==
  [i \in 1..samples_per_window |->
     IF i > from /\ i <= from + count THEN value ELSE array[i]]

\* Leaving sample_window() when the while loop has run to its end.
no_overflow(w) ==
  [w EXCEPT !.overflowed_idle_samples = 0, !.overflow_sample = "NONE",
            !.returned = TRUE]

\* sample_window() from the overflow sample to the head of the while loop.
fill_overflow_sample(w) ==
  IF w.overflow_sample # "NONE"
    THEN IF w.current + 1 = samples_per_window
           THEN no_overflow(
                  [w EXCEPT !.missed = FillSlots(@, w.current, 1, "NONE"),
                            !.samples = FillSlots(@, w.current, 1, w.overflow_sample),
                            !.current = @ + 1])
           ELSE [w EXCEPT !.missed = FillSlots(@, w.current, 1, "NONE"),
                          !.samples = FillSlots(@, w.current, 1, w.overflow_sample),
                          !.current = @ + 1]
    ELSE w

\* sample_window() up to the head of the while loop.
sample_window_enter(w) ==
  IF MIN2(w.overflowed_idle_samples, samples_per_window) = samples_per_window
    THEN [w EXCEPT !.missed = FillSlots(@, 0, samples_per_window, w.overflow_sample),
                   !.samples = FillSlots(@, 0, samples_per_window, "IDLE"),
                   !.current = samples_per_window,
                   !.overflowed_idle_samples = @ - samples_per_window,
                   !.returned = TRUE]
    ELSE fill_overflow_sample(
           [w EXCEPT !.missed = FillSlots(@, 0, MIN2(w.overflowed_idle_samples,
                                                     samples_per_window),
                                          w.overflow_sample),
                     !.samples = FillSlots(@, 0, MIN2(w.overflowed_idle_samples,
                                                      samples_per_window),
                                           "IDLE"),
                     !.current = MIN2(w.overflowed_idle_samples, samples_per_window)])

\* One round of the while loop after the idle ticks were written: the
\* window is full, or the sample is written.
sample_window_sample(w, idle_ticks, consumed_idle_ticks, the_sample) ==
  IF w.current = samples_per_window
    THEN [w EXCEPT !.overflow_sample = the_sample,
                   !.overflowed_idle_samples = idle_ticks - consumed_idle_ticks,
                   !.returned = TRUE]
  ELSE IF w.current + 1 = samples_per_window
    THEN no_overflow([w EXCEPT !.missed = FillSlots(@, w.current, 1, "NONE"),
                               !.samples = FillSlots(@, w.current, 1, the_sample),
                               !.current = @ + 1])
  ELSE [w EXCEPT !.missed = FillSlots(@, w.current, 1, "NONE"),
                 !.samples = FillSlots(@, w.current, 1, the_sample),
                 !.current = @ + 1]

\* One round of the while loop with what sample() returned.
sample_window_round(w, idle_ticks, the_sample) ==
  sample_window_sample(
    [w EXCEPT !.missed = FillSlots(@, w.current,
                                   MIN2(idle_ticks, samples_per_window - w.current),
                                   the_sample),
              !.samples = FillSlots(@, w.current,
                                    MIN2(idle_ticks, samples_per_window - w.current),
                                    "IDLE"),
              !.current = @ + MIN2(idle_ticks, samples_per_window - w.current)],
    idle_ticks, MIN2(idle_ticks, samples_per_window - w.current), the_sample)

(***************************************************************************)
(* Queries on field and method references of the pool of cp_holder; pool   *)
(* holds the entry states, it the two initiated tables.                    *)
(***************************************************************************)
get_fmi_ref_resolved_archivable_klass(it, pool, cp_holder, cp_index) ==
  LET klass_cp_index == PoolLayout[cp_index].klass_index
      k == PoolLayout[klass_cp_index].name
  IN IF pool[klass_cp_index] # "resolved" THEN [klass |-> NoClass, it |-> it]
     ELSE LET a == can_archive_resolved_klass(it, cp_holder, k)
          IN IF ~a.ret THEN [klass |-> NoClass, it |-> a.it]
             ELSE [klass |-> k, it |-> a.it]

\* A variant that takes static fields too.
can_archive_resolved_field_static(it, pool, cp_holder, cp_index) ==
  LET k == get_fmi_ref_resolved_archivable_klass(it, pool, cp_holder, cp_index)
  IN IF k.klass = NoClass THEN Answer(FALSE, k.it)
     ELSE IF ~PoolLayout[cp_index].found THEN Answer(FALSE, k.it)
     ELSE Answer(TRUE, k.it)

can_archive_resolved_field(it, pool, cp_holder, cp_index) ==
  LET k == get_fmi_ref_resolved_archivable_klass(it, pool, cp_holder, cp_index)
  IN IF k.klass = NoClass THEN Answer(FALSE, k.it)
     ELSE IF ~PoolLayout[cp_index].found \/ PoolLayout[cp_index].static
       THEN Answer(FALSE, k.it)
     ELSE Answer(TRUE, k.it)

\* A variant that resolves the entries of every class.
eager_resolve_every_class(s, ik, fault) ==
  IF s.exc THEN s
  ELSE preresolve_field_and_method_cp_entries(
         preresolve_class_cp_entries(s, ik, NoList, fault), ik, NoList, fault)

\* dumptime_resolve_constants after the string loop.
eager_resolve(s, ik, fault) ==
  IF s.exc THEN s
  ELSE IF /\ is_builtin_loader(ik)
          /\ \/ may_be_regenerated_class(ik)
             \/ (is_hidden(ik) /\ is_archivable_hidden_klass(ik))
    THEN preresolve_field_and_method_cp_entries(
           preresolve_class_cp_entries(s, ik, NoList, fault), ik, NoList, fault)
  ELSE s

\* A variant that does not look at the flag put_if_absent reports.
dumptime_resolve_constants_again(g, ik, fault) ==
  IF ik \notin linked THEN g
  ELSE LET s == eager_resolve(
                  resolve_strings([cp |-> g.cp, exc |-> FALSE, loaded |-> g.loaded],
                                  1, fault),
                  ik, fault)
       IN [cp |-> s.cp, processed |-> g.processed \cup {ik}, exc |-> s.exc,
           loaded |-> s.loaded]

\* dumptime_resolve_constants(ik): g = [cp, processed, exc] holds the pool
\* of ik, _processed_classes and the pending exception.
dumptime_resolve_constants(g, ik, fault) ==
  IF ik \notin linked THEN g
  ELSE IF ik \in g.processed THEN g
  ELSE LET s == eager_resolve(
                  resolve_strings([cp |-> g.cp, exc |-> FALSE, loaded |-> g.loaded],
                                  1, fault),
                  ik, fault)
       IN [cp |-> s.cp, processed |-> g.processed \cup {ik}, exc |-> s.exc,
           loaded |-> s.loaded]

(***************************************************************************)
(* Replay at run time.  s = [loaded, initiating, initialized, log, exc,    *)
(* fatal]: the classes whose is_loaded() is true, the pairs preload_class  *)
(* has registered, the classes initialize_from_cds has restored, what was  *)
(* done so far, HAS_PENDING_EXCEPTION, and whether                         *)
(* MetaspaceShared::unrecoverable_loading_error() has ended the process.   *)
(* fault = [klass, outcome] says what the class-loading API does for one   *)
(* class: "exception" (it throws), "transformed" (it returns a class that  *)
(* is not in the archive), "other_archived" (it returns another archived   *)
(* class of the same name), "init_exception" (initialize_from_cds throws). *)
(***************************************************************************)
\* InstanceKlass::has_preinitialized_mirror(): the flag is set when the
\* mirror is written with the archived heap, which a dynamic dump does not
\* write.
has_preinitialized_mirror(ik) ==
  /\ ik \in {"HexFormat", "JfrEvent", "AppMain", "AppSub"}
  /\ (is_dumping_heap \/ ik \in BaseArchiveClasses)

Event(phase, table, klass, was_loaded) ==
  [phase |-> phase, table |-> table, klass |-> klass, was_loaded |-> was_loaded]

Outcome(ik, fault) == IF fault.klass = ik THEN fault.outcome ELSE "ok"

\* A variant that tolerates every archived class of the same name.
jvmti_agent_error_any_archived(s, expected, actual) ==
  IF actual = "other_archived" THEN s ELSE [s EXCEPT !.fatal = TRUE]

\* jvmti_agent_error(expected, actual, type): actual is "other_archived" for
\* an archived class of the same name (actual->is_shared()), "transformed"
\* for a class defined from other bytes.
jvmti_agent_error(s, expected, actual) ==
  IF actual = "other_archived" /\ may_be_regenerated_class(expected) THEN s
  ELSE [s EXCEPT !.fatal = TRUE]

preload_archived_hidden_class(s, ik, fault) ==
  IF Outcome(ik, fault) = "exception" THEN [s EXCEPT !.exc = TRUE]
  ELSE [s EXCEPT !.loaded = @ \cup {ik}]

\* The loop over initiated_klasses.
RECURSIVE runtime_preload_initiated(_, _, _, _, _)
runtime_preload_initiated(s, table, initiated_klasses, i, loader) ==
  IF i > Len(initiated_klasses) THEN s
  ELSE runtime_preload_initiated(
         [s EXCEPT !.initiating = @ \cup {<<loader, initiated_klasses[i]>>},
                   !.log = Append(@, Event("initiate", table, initiated_klasses[i],
                                           initiated_klasses[i] \in s.loaded))],
         table, initiated_klasses, i + 1, loader)

\* One class of the first loop over preloaded_klasses.
runtime_preload_klass(s, ik, loader, fault) ==
  IF ik \in s.loaded THEN s
  ELSE IF is_hidden(ik) THEN preload_archived_hidden_class(s, ik, fault)
  ELSE CASE Outcome(ik, fault) = "exception" -> [s EXCEPT !.exc = TRUE]
         [] Outcome(ik, fault) \in {"transformed", "other_archived"} ->
              jvmti_agent_error(s, ik, Outcome(ik, fault))
         [] OTHER -> [s EXCEPT !.loaded = @ \cup {ik}]

\* The first loop over preloaded_klasses; CHECK and the end of the process
\* leave it.
RECURSIVE runtime_preload_klasses(_, _, _, _, _, _)
runtime_preload_klasses(s, table, preloaded_klasses, i, loader, fault) ==
  IF i > Len(preloaded_klasses) \/ s.exc \/ s.fatal THEN s
  ELSE runtime_preload_klasses(
         runtime_preload_klass(
           [s EXCEPT !.log = Append(@, Event("preload", table, preloaded_klasses[i],
                                             preloaded_klasses[i] \in s.loaded))],
           preloaded_klasses[i], loader, fault),
         table, preloaded_klasses, i + 1, loader, fault)

\* A variant that restores no class.
runtime_preload_initialize_none(s, table, preloaded_klasses, i, fault) == s

\* The second loop over preloaded_klasses.
RECURSIVE runtime_preload_initialize(_, _, _, _, _)
runtime_preload_initialize(s, table, preloaded_klasses, i, fault) ==
  IF i > Len(preloaded_klasses) \/ s.exc \/ s.fatal THEN s
  ELSE runtime_preload_initialize(
         IF has_preinitialized_mirror(preloaded_klasses[i])
           THEN IF Outcome(preloaded_klasses[i], fault) = "init_exception"
                  THEN [s EXCEPT !.exc = TRUE]
                  ELSE [s EXCEPT !.initialized = @ \cup {preloaded_klasses[i]},
                                 !.log = Append(@, Event("initialize", table,
                                                         preloaded_klasses[i],
                                                         preloaded_klasses[i] \in s.loaded))]
         ELSE IF UseNewCode /\ preloaded_klasses[i] \in s.loaded
           THEN [s EXCEPT !.log = Append(@, Event("link", table, preloaded_klasses[i], TRUE))]
         ELSE s,
         table, preloaded_klasses, i + 1, fault)

\* The lists runtime_preload(table, loader) takes from the table; a list
\* that is nullptr, and initiated_klasses for the boot loader, are skipped.
ListOf(table, list_name) ==
  IF list_name \in table.nulls THEN <<>> ELSE table[list_name]

\* A variant that takes the boot-core list for the boot loader every time.
PreloadedListNameCoreOnly(loader, javabase_only) ==
  CASE loader = "boot" -> "boot"
    [] loader = "platform" -> "platform"
    [] OTHER -> "app"

PreloadedListName(loader, javabase_only) ==
  CASE loader = "boot" -> IF javabase_only THEN "boot" ELSE "boot2"
    [] loader = "platform" -> "platform"
    [] OTHER -> "app"

InitiatedList(table, loader) ==
  CASE loader = "boot" -> <<>>
    [] loader = "platform" -> ListOf(table, "platform_initiated")
    [] OTHER -> ListOf(table, "app_initiated")

\* A variant that restores the preinitialized classes before it loads the
\* classes of the list.
runtime_preload_table_initialize_first(s, name, table, loader, javabase_only, fault) ==
  IF PreloadedListName(loader, javabase_only) \in table.nulls
    THEN runtime_preload_initiated(s, name, InitiatedList(table, loader), 1, loader)
  ELSE runtime_preload_klasses(
         runtime_preload_initialize(
           runtime_preload_initiated(s, name, InitiatedList(table, loader), 1, loader),
           name, table[PreloadedListName(loader, javabase_only)], 1, fault),
         name, table[PreloadedListName(loader, javabase_only)], 1, loader, fault)

\* runtime_preload(PreloadedKlasses* table, Handle loader, TRAPS); name tells
\* the static table from the dynamic one.
runtime_preload_table(s, name, table, loader, javabase_only, fault) ==
  IF PreloadedListName(loader, javabase_only) \in table.nulls
    THEN runtime_preload_initiated(s, name, InitiatedList(table, loader), 1, loader)
  ELSE IF javabase_only
    THEN runtime_preload_klasses(
           runtime_preload_initiated(s, name, InitiatedList(table, loader), 1, loader),
           name, table[PreloadedListName(loader, javabase_only)], 1, loader, fault)
  ELSE runtime_preload_initialize(
         runtime_preload_klasses(
           runtime_preload_initiated(s, name, InitiatedList(table, loader), 1, loader),
           name, table[PreloadedListName(loader, javabase_only)], 1, loader, fault),
         name, table[PreloadedListName(loader, javabase_only)], 1, fault)

\* runtime_preload(current, loader) after the static table was replayed:
\* r = [s, finished, javabase_only].
runtime_preload_dynamic(s, tables, loader, javabase_only, fault) ==
  IF s.exc \/ s.fatal THEN s
  ELSE runtime_preload_table(s, "dynamic", tables.dynamic, loader, javabase_only, fault)

\* A variant that never stores the flag.
runtime_preload_finish_unpublished(s, r, loader) ==
  IF s.fatal THEN [r EXCEPT !.s = s]
  ELSE [s |-> s, javabase_only |-> FALSE, finished |-> r.finished]

\* runtime_preload(current, loader) after both tables: _preload_javabase_only
\* and the release store for the app loader.
runtime_preload_finish(s, r, loader) ==
  IF s.fatal THEN [r EXCEPT !.s = s]
  ELSE [s |-> s, javabase_only |-> FALSE,
        finished |-> IF loader = "app" THEN TRUE ELSE r.finished]

\* A variant that publishes the flag after the replay for any loader but the
\* boot loader.
runtime_preload_early(r, rc, tables, loader, fault) ==
  IF ~rc.UseSharedSpaces THEN r
  ELSE IF loader # "boot" /\ ~rc.has_platform_or_app_classes
    THEN [r EXCEPT !.finished = TRUE]
  ELSE [runtime_preload_finish(
          runtime_preload_dynamic(
            runtime_preload_table(r.s, "static", tables.static, loader,
                                  r.javabase_only, fault),
            tables, loader, r.javabase_only, fault),
          r, loader) EXCEPT !.finished = (loader # "boot")]

\* A variant whose early return stores true for the platform loader and
\* false for the app loader.
runtime_preload_reset(r, rc, tables, loader, fault) ==
  IF ~rc.UseSharedSpaces THEN r
  ELSE IF loader # "boot" /\ ~rc.has_platform_or_app_classes
    THEN [r EXCEPT !.finished = (loader = "platform")]
  ELSE runtime_preload_finish(
         runtime_preload_dynamic(
           runtime_preload_table(r.s, "static", tables.static, loader,
                                 r.javabase_only, fault),
           tables, loader, r.javabase_only, fault),
         r, loader)

\* runtime_preload(JavaThread* current, Handle loader) up to the end of the
\* scope of the ExceptionMark.
runtime_preload(r, rc, tables, loader, fault) ==
  IF ~rc.UseSharedSpaces THEN r
  ELSE IF loader # "boot" /\ ~rc.has_platform_or_app_classes
    THEN [r EXCEPT !.finished = TRUE]
  ELSE runtime_preload_finish(
         runtime_preload_dynamic(
           runtime_preload_table(r.s, "static", tables.static, loader,
                                 r.javabase_only, fault),
           tables, loader, r.javabase_only, fault),
         r, loader)

\* init_javabase_preloaded_classes(): the loop over
\* _static_preloaded_klasses._boot.
RECURSIVE init_javabase_preloaded_classes(_, _, _)
init_javabase_preloaded_classes(s, preloaded_klasses, i) ==
  IF i > Len(preloaded_klasses) THEN s
  ELSE init_javabase_preloaded_classes(
         IF has_preinitialized_mirror(preloaded_klasses[i])
           THEN [s EXCEPT !.initialized = @ \cup {preloaded_klasses[i]}]
         ELSE s,
         preloaded_klasses, i + 1)

\* class_preloading_finished()
class_preloading_finished(rc, flag) ==
  IF ~rc.UseSharedSpaces THEN TRUE ELSE flag

\* The process is the dumping one: no archive has been mapped for replay.
NoRuntime == [UseSharedSpaces |-> FALSE, has_platform_or_app_classes |-> FALSE]

(***************************************************************************)
(* The initial state: a process about to dump, no session open.            *)
(***************************************************************************)
Init ==
  /\ config \in DumpConfigs
  /\ static_klasses = IF config.kind = "static" THEN NullKlasses ELSE BaseArchiveKlasses
  /\ dynamic_klasses = NullKlasses
  /\ null_tables = TableNames
  /\ vm_classes = {}
  /\ preloaded_classes = {}
  /\ processed_classes = {}
  /\ platform_initiated = EmptyTable
  /\ app_initiated = EmptyTable
  /\ num_vm_klasses = 0
  /\ sessions = 0
  /\ queries = 0
  /\ stage = "idle"
  /\ last = NoCall
  /\ linked = {}
  /\ cp = [ik \in PoolHolders |-> InitialPool(ik)]
  /\ pending_exception = FALSE
  /\ loaded = InitiallyLoaded
  /\ indy_worklist = NoWorklist
  /\ passes = 0
  /\ runtime_config = NoRuntime
  /\ _class_preloading_finished = FALSE
  /\ _preload_javabase_only = TRUE
  /\ is_loaded = {}
  /\ initiating = {}
  /\ initialized_from_cds = {}
  /\ invocations = 0
  /\ javabase_initialized = FALSE
  /\ replay_log = <<>>
  /\ observed_finished = FALSE
  /\ archive_stream = NothingWritten
  /\ has_preloaded_classes = [dump |-> config.kind # "static", runtime |-> FALSE]
  /\ _unregistered_klasses_from_preimage = NullPtr
  /\ mapped = NothingMapped
  /\ _nticks = 0
  /\ _start_nanos = 0
  /\ overflowed_idle_samples = 0
  /\ overflow_sample = "NONE"
  /\ samples = [i \in 1..samples_per_window |-> "UNKNOWN"]
  /\ missed = [i \in 1..samples_per_window |-> "UNKNOWN"]
  /\ window_number = 0
  /\ current = 0
  /\ thermostat_at = "run_loop"
  /\ window_ticks = <<>>

(***************************************************************************)
(* initialize()                                                            *)
(***************************************************************************)
\* The tables after initialize() has run over the vmClasses ids.
initialize_tables(t) ==
  LET from_base == "boot" \notin static_klasses.nulls /\ ~is_dumping_final_static_archive
      pre == IF from_base
               THEN add_preloaded_klasses(
                      add_preloaded_klasses(
                        add_preloaded_klasses(
                          add_preloaded_klasses(t.pre, static_klasses.boot),
                          static_klasses.boot2),
                        static_klasses.platform),
                      static_klasses.app)
               ELSE t.pre
      plat == IF from_base
                THEN add_unrecorded_initiated_klasses(
                       EmptyTable, static_klasses.platform_initiated, 1)
                ELSE EmptyTable
      app == IF from_base
               THEN add_unrecorded_initiated_klasses(
                      EmptyTable, static_klasses.app_initiated, 1)
               ELSE EmptyTable
  IN [vm |-> t.vm, pre |-> pre, num |-> t.num,
      plat |-> add_initiated_klasses_for_loader("platform", plat),
      app |-> add_initiated_klasses_for_loader("app", app)]

initialize(ids) ==
  initialize_tables(
    add_vm_class_list([vm |-> {}, pre |-> {}, num |-> num_vm_klasses], ids, 1))

Initialize(ids) ==
  /\ stage = "idle"
  /\ "vm" \in null_tables
  /\ sessions < MaxSessions
  /\ "boot" \in static_klasses.nulls \/ static_klasses.nulls = {}
  /\ \E t \in {initialize(ids)} :
       /\ vm_classes' = t.vm
       /\ preloaded_classes' = t.pre
       /\ num_vm_klasses' = t.num
       /\ platform_initiated' = t.plat
       /\ app_initiated' = t.app
  /\ processed_classes' = {}
  /\ null_tables' = {}
  /\ sessions' = sessions + 1
  /\ queries' = 0
  /\ stage' = "open"
  /\ last' = Call("initialize", NoClass, NoClass, FALSE, ids)
  /\ UNCHANGED <<config, static_klasses, dynamic_klasses>>
  /\ UNCHANGED resolve_vars

(***************************************************************************)
(* A further add_one_vm_class(ik) in an open session.                      *)
(***************************************************************************)
AddOneVmClass(ik) ==
  /\ stage = "open"
  /\ "vm" \notin null_tables
  /\ \E t \in {add_one_vm_class([vm |-> vm_classes, pre |-> preloaded_classes,
                                 num |-> num_vm_klasses], ik)} :
       /\ vm_classes' = t.vm
       /\ preloaded_classes' = t.pre
       /\ num_vm_klasses' = t.num
  /\ last' = Call("add_one_vm_class", NoClass, ik, FALSE, <<>>)
  /\ UNCHANGED <<config, static_klasses, dynamic_klasses, null_tables,
                 processed_classes, platform_initiated, app_initiated,
                 sessions, queries, stage>>
  /\ UNCHANGED resolve_vars

(***************************************************************************)
(* can_archive_resolved_klass(cp_holder, resolved_klass), asked by the     *)
(* archive builder for a holder and a class resolved in its pool.          *)
(***************************************************************************)
CanArchiveResolvedKlass(cp_holder, resolved_klass) ==
  /\ stage \in {"open", "recorded"}
  /\ "vm" \notin null_tables
  /\ queries < MaxQueries
  /\ \E a \in {can_archive_resolved_klass(
                 [plat |-> platform_initiated, app |-> app_initiated],
                 cp_holder, resolved_klass)} :
       /\ platform_initiated' = a.it.plat
       /\ app_initiated' = a.it.app
       /\ last' = Call("can_archive_resolved_klass", cp_holder, resolved_klass,
                       a.ret, <<>>)
  /\ queries' = queries + 1
  /\ UNCHANGED <<config, static_klasses, dynamic_klasses, null_tables,
                 vm_classes, preloaded_classes, processed_classes,
                 num_vm_klasses, sessions, stage>>
  /\ UNCHANGED resolve_vars

(***************************************************************************)
(* record_preloaded_klasses(is_static_archive)                             *)
(***************************************************************************)
RecordPreloadedKlasses ==
  /\ stage = "open"
  /\ PreloadSharedClasses
  /\ \E r \in {record_preloaded_klasses(
                 preloaded_classes,
                 [plat |-> platform_initiated, app |-> app_initiated])} :
     LET written(table) ==
           [table EXCEPT !.boot = r.boot, !.boot2 = r.boot2,
                         !.platform = r.platform, !.app = r.app,
                         !.nulls = @ \ {"boot", "boot2", "platform", "app"}]
     IN /\ IF DynamicDumpSharedSpaces
             THEN /\ dynamic_klasses' = written(dynamic_klasses)
                  /\ UNCHANGED static_klasses
             ELSE /\ static_klasses' = written(static_klasses)
                  /\ UNCHANGED dynamic_klasses
        /\ preloaded_classes' = r.pre
        /\ platform_initiated' = r.it.plat
        /\ app_initiated' = r.it.app
  /\ stage' = "recorded"
  /\ last' = Call("record_preloaded_klasses", NoClass, NoClass, FALSE, <<>>)
  /\ UNCHANGED <<config, null_tables, vm_classes, processed_classes,
                 num_vm_klasses, sessions, queries>>
  /\ UNCHANGED resolve_vars

(***************************************************************************)
(* record_initiated_klasses(is_static_archive)                             *)
(***************************************************************************)
RecordInitiatedKlasses ==
  /\ stage = "recorded"
  /\ PreloadSharedClasses
  /\ LET written(table) ==
           [table EXCEPT
              !.platform_initiated = record_initiated_klasses(platform_initiated, 1, <<>>),
              !.app_initiated = record_initiated_klasses(app_initiated, 1, <<>>),
              !.nulls = @ \ {"platform_initiated", "app_initiated"}]
     IN IF DynamicDumpSharedSpaces
          THEN /\ dynamic_klasses' = written(dynamic_klasses)
               /\ UNCHANGED static_klasses
          ELSE /\ static_klasses' = written(static_klasses)
               /\ UNCHANGED dynamic_klasses
  /\ stage' = "written"
  /\ last' = Call("record_initiated_klasses", NoClass, NoClass, FALSE, <<>>)
  /\ UNCHANGED <<config, null_tables, vm_classes, preloaded_classes,
                 processed_classes, platform_initiated, app_initiated,
                 num_vm_klasses, sessions, queries>>
  /\ UNCHANGED resolve_vars

(***************************************************************************)
(* dispose()                                                               *)
(***************************************************************************)
Dispose ==
  /\ stage # "idle"
  /\ "vm" \notin null_tables
  /\ vm_classes' = {}
  /\ processed_classes' = {}
  /\ platform_initiated' = EmptyTable
  /\ app_initiated' = EmptyTable
  /\ null_tables' = {"vm", "processed", "platform_initiated", "app_initiated"}
  /\ stage' = "idle"
  /\ last' = Call("dispose", NoClass, NoClass, FALSE, <<>>)
  /\ UNCHANGED <<config, static_klasses, dynamic_klasses, preloaded_classes,
                 num_vm_klasses, sessions, queries>>
  /\ UNCHANGED resolve_vars

(***************************************************************************)
(* The dump session of the archive builder: initialize(), the builder's    *)
(* archivability queries, and the recording of the preloaded and initiated *)
(* classes.  The holders the builder asks about: one of each kind.         *)
(***************************************************************************)
QueryHolders ==
  {"String", "Integer", "HexFormat", "LambdaFormMH", "HiddenX", "SqlDate",
   "AppMain", "AppSub", "Custom"}

Next ==
  \/ \E ids \in VmClassTables : Initialize(ids)
  \/ \E cp_holder \in QueryHolders, resolved_klass \in Classes :
       CanArchiveResolvedKlass(cp_holder, resolved_klass)
  \/ RecordPreloadedKlasses
  \/ RecordInitiatedKlasses

Spec == Init /\ [][Next]_vars

(***************************************************************************)
(* The life of the vm-class table over the sessions of one process:        *)
(* initialize(), further add_one_vm_class calls, dispose().                *)
(***************************************************************************)
NextVmClasses ==
  \/ \E ids \in VmClassTables : Initialize(ids)
  \/ \E ik \in VmCandidates : AddOneVmClass(ik)
  \/ Dispose

SpecVmClasses == Init /\ [][NextVmClasses]_vars

(***************************************************************************)
(* The resolution of constants at dump time: the classes get linked and    *)
(* the dump driver calls dumptime_resolve_constants on classes, possibly   *)
(* more than once on the same class.                                       *)
(***************************************************************************)
\* InstanceKlass::link_class: the class becomes linked.
LinkClass(ik) ==
  /\ ik \notin linked
  /\ linked' = linked \cup {ik}
  /\ last' = Call("link_class", NoClass, ik, FALSE, <<>>)
  /\ UNCHANGED <<config, static_klasses, dynamic_klasses, null_tables,
                 vm_classes, preloaded_classes, processed_classes,
                 platform_initiated, app_initiated, num_vm_klasses, sessions,
                 queries, stage, cp, pending_exception, loaded,
                 indy_worklist, passes, replay_vars, archive_vars, thermostat_vars>>

\* dumptime_resolve_constants(ik); ret tells whether this call was the one
\* that marked ik processed.
DumptimeResolveConstants(ik, fault) ==
  /\ stage = "open"
  /\ "processed" \notin null_tables
  /\ \E g \in {dumptime_resolve_constants(
                 [cp |-> cp[ik], processed |-> processed_classes, exc |-> FALSE,
                  loaded |-> loaded],
                 ik, fault)} :
       /\ cp' = [cp EXCEPT ![ik] = g.cp]
       /\ processed_classes' = g.processed
       /\ pending_exception' = g.exc
       /\ loaded' = g.loaded
  /\ last' = Call("dumptime_resolve_constants", NoClass, ik,
                  ik \in linked /\ ik \notin processed_classes, <<>>)
  /\ UNCHANGED <<config, static_klasses, dynamic_klasses, null_tables,
                 vm_classes, preloaded_classes, platform_initiated,
                 app_initiated, num_vm_klasses, sessions, queries, stage,
                 linked, indy_worklist, passes, replay_vars, archive_vars, thermostat_vars>>

NextResolve ==
  \/ \E ids \in VmClassTables : Initialize(ids)
  \/ \E ik \in PoolHolders : LinkClass(ik)
  \/ \E ik \in PoolHolders, fault \in Faults : DumptimeResolveConstants(ik, fault)

SpecResolve == Init /\ [][NextResolve]_vars

(***************************************************************************)
(* Prelinking with a training mask: the callers of preresolve_*_cp_entries *)
(* hand in a preresolve_list saying, per index, whether the entry was      *)
(* resolved in the training run.                                           *)
(***************************************************************************)
MaxPasses == 2

AllIndices == 1..Len(PoolLayout)

\* The masks the callers hand in: everything exercised, nothing exercised,
\* or everything but one index.
MaskedIndices == {9, 14}

PreresolveLists ==
  {[i \in AllIndices |-> TRUE], [i \in AllIndices |-> FALSE]}
    \cup {[i \in AllIndices |-> i # K] : K \in MaskedIndices}

PrelinkHolders == {"AppMain", "Custom"}

PrelinkFaults ==
  {NoFault,
   [index |-> 9, error |-> "LinkageError"],
   [index |-> 14, error |-> "LinkageError"]}

\* One preresolve call, with the pool, the pending exception and the loaded
\* classes after it in s.
Preresolved(op, ik, preresolve_list, s) ==
  /\ passes < MaxPasses
  /\ cp' = [cp EXCEPT ![ik] = s.cp]
  /\ pending_exception' = s.exc
  /\ loaded' = s.loaded
  /\ passes' = passes + 1
  /\ last' = Call(op, NoClass, ik, FALSE, preresolve_list)
  /\ UNCHANGED <<config, static_klasses, dynamic_klasses, null_tables,
                 vm_classes, preloaded_classes, processed_classes,
                 platform_initiated, app_initiated, num_vm_klasses, sessions,
                 queries, stage, linked, indy_worklist, replay_vars, archive_vars, thermostat_vars>>

PoolOf(ik) == [cp |-> cp[ik], exc |-> FALSE, loaded |-> loaded]

PreresolveClassCpEntries(ik, preresolve_list, fault) ==
  \E s \in {preresolve_class_cp_entries(PoolOf(ik), ik, preresolve_list, fault)} :
    Preresolved("preresolve_class_cp_entries", ik, preresolve_list, s)

PreresolveFieldAndMethodCpEntries(ik, preresolve_list, fault) ==
  \E s \in {preresolve_field_and_method_cp_entries(PoolOf(ik), ik,
                                                    preresolve_list, fault)} :
    Preresolved("preresolve_field_and_method_cp_entries", ik, preresolve_list, s)

PreresolveIndyCpEntries(ik, preresolve_list, fault) ==
  \E s \in {preresolve_indy_cp_entries(PoolOf(ik), ik, preresolve_list, fault)} :
    Preresolved("preresolve_indy_cp_entries", ik, preresolve_list, s)

\* record_resolved_indys(), when the archive is written.
RecordResolvedIndys ==
  /\ indy_worklist' = record_resolved_indys(cp, indy_worklist)
  /\ last' = Call("record_resolved_indys", NoClass, NoClass, FALSE, <<>>)
  /\ UNCHANGED <<config, static_klasses, dynamic_klasses, null_tables,
                 vm_classes, preloaded_classes, processed_classes,
                 platform_initiated, app_initiated, num_vm_klasses, sessions,
                 queries, stage, linked, cp, pending_exception, loaded, passes,
                 replay_vars, archive_vars, thermostat_vars>>

NextPrelink ==
  \/ \E ik \in PrelinkHolders : LinkClass(ik)
  \/ \E ik \in PrelinkHolders, preresolve_list \in PreresolveLists,
        fault \in PrelinkFaults :
       \/ PreresolveClassCpEntries(ik, preresolve_list, fault)
       \/ PreresolveFieldAndMethodCpEntries(ik, preresolve_list, fault)
       \/ PreresolveIndyCpEntries(ik, preresolve_list, fault)
  \/ RecordResolvedIndys

SpecPrelink == Init /\ [][NextPrelink]_vars

(***************************************************************************)
(* The final stage of a layered dump: the preimage is mapped with its      *)
(* worklist, and the call sites on the worklist are resolved again.        *)
(***************************************************************************)
\* A pool as the final stage finds it: no call site is resolved.
PreimagePool(pool) ==
  [cp_index \in 1..Len(PoolLayout) |->
     IF PoolLayout[cp_index].kind = "InvokeDynamic" THEN "unresolved"
     ELSE pool[cp_index]]

\* The final stage starts from the preimage: the worklist is the one that
\* was recorded, the call sites of the pools are not resolved.
MapPreimage ==
  /\ stage = "idle"
  /\ last.op = "record_resolved_indys"
  /\ stage' = "final_image"
  /\ cp' = [ik \in DOMAIN cp |-> PreimagePool(cp[ik])]
  /\ last' = Call("map_preimage", NoClass, NoClass, FALSE, <<>>)
  /\ UNCHANGED <<config, static_klasses, dynamic_klasses, null_tables,
                 vm_classes, preloaded_classes, processed_classes,
                 platform_initiated, app_initiated, num_vm_klasses, sessions,
                 queries, linked, pending_exception, loaded, indy_worklist,
                 passes, replay_vars, archive_vars, thermostat_vars>>

\* preresolve_indys_from_preimage(); the worklist is gone when it returns.
PreresolveIndysFromPreimage(fault) ==
  /\ stage = "final_image"
  /\ \E w \in {preresolve_indys_from_preimage(
                  [pools |-> cp, loaded |-> loaded], indy_worklist, fault)} :
       /\ cp' = w.pools
       /\ loaded' = w.loaded
  /\ indy_worklist' = NoWorklist
  /\ last' = Call("preresolve_indys_from_preimage", NoClass, NoClass, FALSE,
                  indy_worklist)
  /\ UNCHANGED <<config, static_klasses, dynamic_klasses, null_tables,
                 vm_classes, preloaded_classes, processed_classes,
                 platform_initiated, app_initiated, num_vm_klasses, sessions,
                 queries, stage, linked, pending_exception, passes,
                 replay_vars, archive_vars, thermostat_vars>>

NextPreimage ==
  \/ NextPrelink
  \/ MapPreimage
  \/ \E fault \in PrelinkFaults : PreresolveIndysFromPreimage(fault)

SpecPreimage == Init /\ [][NextPreimage]_vars

(***************************************************************************)
(* Writing a recorded table and reading it back.                           *)
(***************************************************************************)
\* A dump whose java.base classes are all in the base archive and that has
\* recorded a class of the boot loader outside java.base.
BootOtherOnlyKlasses ==
  [boot |-> <<>>, boot2 |-> <<"JfrEvent">>, platform |-> <<>>,
   app |-> <<"AppSub", "AppMain">>, platform_initiated |-> <<>>,
   app_initiated |-> <<"Object">>, nulls |-> {}]

\* A dump that has recorded classes of the app loader only.
AppOnlyKlasses ==
  [boot |-> <<>>, boot2 |-> <<>>, platform |-> <<>>,
   app |-> <<"AppMain">>, platform_initiated |-> <<>>,
   app_initiated |-> <<"Object", "SqlDate">>, nulls |-> {}]

SerializeTables ==
  {BaseArchiveKlasses, NullKlasses, BootOtherOnlyKlasses, AppOnlyKlasses}

SerializeWorklists ==
  {NoWorklist,
   <<[klass |-> "AppMain", indices |-> <<13, 15>>]>>,
   <<[klass |-> "AppMain", indices |-> <<13>>],
     [klass |-> "AppSub", indices |-> <<14, 13>>]>>}

SerializeUnregistered == {NullPtr, ArrayPtr(<<>>), ArrayPtr(<<"Custom">>)}

\* The dump has recorded its table, and for a static archive the worklist
\* and the unregistered classes; nothing has been written yet.
InitSerialize ==
  /\ config \in DumpConfigs
  /\ static_klasses \in IF config.kind = "dynamic" THEN {BaseArchiveKlasses}
                        ELSE SerializeTables
  /\ dynamic_klasses \in IF config.kind = "dynamic" THEN SerializeTables
                         ELSE {NullKlasses}
  /\ indy_worklist \in IF config.kind = "dynamic" THEN {NoWorklist}
                       ELSE SerializeWorklists
  /\ _unregistered_klasses_from_preimage
       \in IF config.kind = "dynamic" THEN {NullPtr} ELSE SerializeUnregistered
  /\ null_tables = TableNames
  /\ vm_classes = {}
  /\ preloaded_classes = {}
  /\ processed_classes = {}
  /\ platform_initiated = EmptyTable
  /\ app_initiated = EmptyTable
  /\ num_vm_klasses = 0
  /\ sessions = 0
  /\ queries = 0
  /\ stage = "idle"
  /\ last = NoCall
  /\ linked = {}
  /\ cp = [ik \in PoolHolders |-> InitialPool(ik)]
  /\ pending_exception = FALSE
  /\ loaded = InitiallyLoaded
  /\ passes = 0
  /\ runtime_config = NoRuntime
  /\ _class_preloading_finished = FALSE
  /\ _preload_javabase_only = TRUE
  /\ is_loaded = {}
  /\ initiating = {}
  /\ initialized_from_cds = {}
  /\ invocations = 0
  /\ javabase_initialized = FALSE
  /\ replay_log = <<>>
  /\ observed_finished = FALSE
  /\ archive_stream = NothingWritten
  /\ has_preloaded_classes = [dump |-> config.kind # "static", runtime |-> FALSE]
  /\ mapped = NothingMapped
  /\ _nticks = 0
  /\ _start_nanos = 0
  /\ overflowed_idle_samples = 0
  /\ overflow_sample = "NONE"
  /\ samples = [i \in 1..samples_per_window |-> "UNKNOWN"]
  /\ missed = [i \in 1..samples_per_window |-> "UNKNOWN"]
  /\ window_number = 0
  /\ current = 0
  /\ thermostat_at = "run_loop"
  /\ window_ticks = <<>>

ArchiveName(is_static_archive) ==
  IF is_static_archive THEN "static" ELSE "dynamic"

SerializeUnchanged ==
  UNCHANGED <<config, static_klasses, dynamic_klasses, null_tables,
              vm_classes, preloaded_classes, processed_classes,
              platform_initiated, app_initiated, num_vm_klasses, sessions,
              queries, stage, linked, cp, pending_exception, loaded,
              indy_worklist, passes, replay_vars,
              _unregistered_klasses_from_preimage, thermostat_vars>>

\* serialize(soc, is_static_archive) with the writing closure of the dump.
SerializeWriting(is_static_archive) ==
  /\ is_static_archive = ~DynamicDumpSharedSpaces
  /\ archive_stream[ArchiveName(is_static_archive)] = <<>>
  /\ \E g \in {serialize(
                 SerializeFrom(FALSE, <<>>,
                               IF is_static_archive THEN static_klasses
                               ELSE dynamic_klasses,
                               indy_worklist,
                               _unregistered_klasses_from_preimage),
                 is_static_archive)} :
       /\ archive_stream' =
            [archive_stream EXCEPT ![ArchiveName(is_static_archive)] = g.soc.stream]
       /\ has_preloaded_classes' =
            [has_preloaded_classes EXCEPT !.dump = @ \/ g.flagged]
       /\ last' = Call("serialize", NoClass, NoClass, g.flagged,
                       <<ArchiveName(is_static_archive), "writing">>)
  /\ UNCHANGED mapped
  /\ SerializeUnchanged

\* serialize(soc, is_static_archive) with the reading closure of the process
\* that maps the archive.
SerializeReading(is_static_archive) ==
  /\ archive_stream[ArchiveName(is_static_archive)] # <<>>
  /\ \E g \in {serialize(
                 SerializeFrom(TRUE, archive_stream[ArchiveName(is_static_archive)],
                               mapped[ArchiveName(is_static_archive)],
                               mapped.worklist, mapped.unregistered),
                 is_static_archive)} :
       /\ mapped' =
            [mapped EXCEPT ![ArchiveName(is_static_archive)] = g.table,
                           !.worklist = WorklistOf(g.klasses, g.cp_index_lists),
                           !.unregistered = g.unregistered]
       /\ has_preloaded_classes' =
            [has_preloaded_classes EXCEPT !.runtime = @ \/ g.flagged]
       /\ last' = Call("serialize", NoClass, NoClass, g.flagged,
                       <<ArchiveName(is_static_archive), "reading">>)
  /\ UNCHANGED archive_stream
  /\ SerializeUnchanged

NextSerialize ==
  \E is_static_archive \in BOOLEAN :
    \/ SerializeWriting(is_static_archive)
    \/ SerializeReading(is_static_archive)

SpecSerialize == InitSerialize /\ [][NextSerialize]_vars

(***************************************************************************)
(* The thermostat thread: run_loop() calls sample_window() window after    *)
(* window; the thread waits in wait_for_tick() and in the handshake.       *)
(***************************************************************************)
MaxWindows == 3

\* How late the thread wakes up, how long a handshake takes, and what a
\* handshake samples.
Lates == {0, 2, 3, 7}

Durations == {0, 4}

Targets == {"nullptr", "thread"}

HandshakeModes == {"INTERPRETED", "BLOCKED"}

\* The ticks of count idle samples and one sample.
RECURSIVE Ticks(_, _)
Ticks(count, the_sample) ==
  IF count = 0 THEN <<the_sample>> ELSE <<"IDLE">> \o Ticks(count - 1, the_sample)

\* The locals of run_loop() and of sample_window().
Window ==
  [overflowed_idle_samples |-> overflowed_idle_samples,
   overflow_sample |-> overflow_sample, samples |-> samples,
   missed |-> missed, current |-> current, returned |-> FALSE]

\* The locals after a step of sample_window(); run_loop() counts the window
\* when the call returns.
WindowStep(w) ==
  /\ overflowed_idle_samples' = w.overflowed_idle_samples
  /\ overflow_sample' = w.overflow_sample
  /\ samples' = w.samples
  /\ missed' = w.missed
  /\ current' = w.current
  /\ thermostat_at' = IF w.returned THEN "run_loop" ELSE "sample_window"
  /\ window_number' = IF w.returned THEN window_number + 1 ELSE window_number
  /\ last' = Call(IF w.returned THEN "sample_window" ELSE "wait_for_tick",
                  NoClass, NoClass, FALSE, <<>>)

ThermostatUnchanged ==
  UNCHANGED <<config, static_klasses, dynamic_klasses, null_tables,
              vm_classes, preloaded_classes, processed_classes,
              platform_initiated, app_initiated, num_vm_klasses, sessions,
              queries, stage, linked, cp, pending_exception, loaded,
              indy_worklist, passes, replay_vars, archive_vars>>

\* run_loop() calls sample_window(): the overflow of the window before is
\* written, and the call returns or reaches wait_for_tick().
SampleWindowEnter ==
  /\ thermostat_at = "run_loop"
  /\ window_number < MaxWindows
  /\ \E w \in {sample_window_enter([Window EXCEPT !.current = 0])} : WindowStep(w)
  /\ window_ticks' = SubSeq(window_ticks, samples_per_window + 1, Len(window_ticks))
  /\ UNCHANGED <<_nticks, _start_nanos>>
  /\ ThermostatUnchanged

\* One round of the while loop: wait_for_tick(), sample() and the slots.
SampleWindowRound(late, target, duration, mode) ==
  /\ thermostat_at = "sample_window"
  /\ \E t \in {wait_for_tick(_nticks, _start_nanos, late)} :
       /\ _nticks' = t.nticks
       /\ _start_nanos' = t.start_nanos
       /\ \E s \in {sample(t.ret, target, duration, mode)} :
            /\ \E w \in {sample_window_round(Window, s.idle_ticks, s.the_sample)} :
                 WindowStep(w)
            /\ window_ticks' = window_ticks \o Ticks(s.idle_ticks, s.the_sample)
  /\ ThermostatUnchanged

NextThermostat ==
  \/ SampleWindowEnter
  \/ \E late \in Lates, target \in Targets, duration \in Durations,
        mode \in HandshakeModes :
       SampleWindowRound(late, target, duration, mode)

SpecThermostat == Init /\ [][NextThermostat]_vars

(***************************************************************************)
(* Queries on the field references of pools whose classes were resolved at *)
(* dump time.                                                              *)
(***************************************************************************)
FieldIndices == {i \in AllIndices : PoolLayout[i].kind = "Fieldref"}

FieldQueryHolders == {"LambdaFormMH", "AppMain"}

FieldQueryFaults == {NoFault, [index |-> 2, error |-> "LinkageError"]}

\* can_archive_resolved_field(cp, cp_index) on the pool of cp_holder.
CanArchiveResolvedField(cp_holder, cp_index) ==
  /\ stage \in {"open", "recorded"}
  /\ "vm" \notin null_tables
  /\ queries < MaxQueries
  /\ \E a \in {can_archive_resolved_field(
                 [plat |-> platform_initiated, app |-> app_initiated],
                 cp[cp_holder], cp_holder, cp_index)} :
       /\ platform_initiated' = a.it.plat
       /\ app_initiated' = a.it.app
       /\ last' = Call("can_archive_resolved_field", cp_holder,
                       PoolLayout[PoolLayout[cp_index].klass_index].name,
                       a.ret, <<cp_index>>)
  /\ queries' = queries + 1
  /\ UNCHANGED <<config, static_klasses, dynamic_klasses, null_tables,
                 vm_classes, preloaded_classes, processed_classes,
                 num_vm_klasses, sessions, stage>>
  /\ UNCHANGED resolve_vars

NextFieldQuery ==
  \/ \E ids \in VmClassTables : Initialize(ids)
  \/ \E ik \in FieldQueryHolders : LinkClass(ik)
  \/ \E ik \in FieldQueryHolders, fault \in FieldQueryFaults :
       DumptimeResolveConstants(ik, fault)
  \/ \E ik \in FieldQueryHolders, cp_index \in FieldIndices :
       CanArchiveResolvedField(ik, cp_index)

SpecFieldQuery == Init /\ [][NextFieldQuery]_vars

(***************************************************************************)
(* is_indy_archivable(cp, cp_index) over call sites of every shape.        *)
(***************************************************************************)
WrongSignatureBsm == <<"LambdaMetafactory", "metafactory", "altMetafactory_sig">>
MakeConcatBsm == <<"StringConcatFactory", "makeConcat", "concat_sig">>

IndyBsms ==
  {StringConcatBsm, MetafactoryBsm, AltMetafactoryBsm, OtherBsm,
   WrongSignatureBsm, MakeConcatBsm}

IndyTypes == {"Comparable", "InitIntf", "SubIntf", "Object", "HexFormat", "Custom"}

IndyHolders == {"AppMain", "LambdaFormMH", "Custom"}

IsIndyArchivable(holder, bsm, type) ==
  /\ last' = Call("is_indy_archivable", holder, type,
                  is_indy_archivable(holder, IndyEntry(bsm, type)), bsm)
  /\ UNCHANGED <<config, static_klasses, dynamic_klasses, null_tables,
                 vm_classes, preloaded_classes, processed_classes,
                 platform_initiated, app_initiated, num_vm_klasses, sessions,
                 queries, stage>>
  /\ UNCHANGED resolve_vars

NextIndy ==
  \E holder \in IndyHolders, bsm \in IndyBsms, type \in IndyTypes :
    IsIndyArchivable(holder, bsm, type)

SpecIndy == Init /\ [][NextIndy]_vars

(***************************************************************************)
(* The process that maps the archive: the bootstrap calls                  *)
(* runtime_preload for the boot loader twice, for the platform loader and  *)
(* for the app loader, and init_javabase_preloaded_classes once after the  *)
(* first call; other threads ask class_preloading_finished() at any time.  *)
(***************************************************************************)
RuntimeConfigs ==
  {[UseSharedSpaces |-> TRUE, has_platform_or_app_classes |-> TRUE],
   [UseSharedSpaces |-> TRUE, has_platform_or_app_classes |-> FALSE],
   [UseSharedSpaces |-> FALSE, has_platform_or_app_classes |-> FALSE]}

\* The archives that get mapped: the one just written, or one written for
\* an application without classes of its own.
ArchiveVariants == {"recorded", "no_app"}

WithoutApp(table) == [table EXCEPT !.app = <<>>, !.app_initiated = <<>>]

MappedTable(table, rc, variant) ==
  IF ~rc.UseSharedSpaces THEN NullKlasses
  ELSE IF variant = "no_app" THEN WithoutApp(table)
  ELSE table

\* The base archive of a dynamic dump was written on the same JDK: each of
\* its classes is a vm class or stands in one of its preload lists.
BaseArchiveFits ==
  DynamicDumpSharedSpaces =>
    \A ik \in BaseArchiveClasses :
      is_vm_class(ik)
        \/ \E n \in {"boot", "boot2", "platform", "app"} :
             \E i \in 1..Len(static_klasses[n]) : static_klasses[n][i] = ik

\* The archive is mapped by a new process, in which vmClasses::resolve_all
\* has loaded the vm classes.
StartRuntime(rc, variant) ==
  /\ stage = "written"
  /\ BaseArchiveFits
  /\ runtime_config' = rc
  /\ static_klasses' = MappedTable(static_klasses, rc, variant)
  /\ dynamic_klasses' = MappedTable(dynamic_klasses, rc, variant)
  /\ is_loaded' = vm_classes
  /\ stage' = "runtime"
  /\ last' = Call("start", NoClass, NoClass, FALSE, <<variant>>)
  /\ UNCHANGED <<config, null_tables, vm_classes, preloaded_classes,
                 processed_classes, platform_initiated, app_initiated,
                 num_vm_klasses, sessions, queries, linked, cp,
                 pending_exception, loaded, indy_worklist, passes,
                 _class_preloading_finished, _preload_javabase_only,
                 initiating, initialized_from_cds, invocations,
                 javabase_initialized, replay_log, observed_finished,
                 archive_vars, thermostat_vars>>

NoReplayFault == [klass |-> NoClass, outcome |-> "ok"]

ReplayFaults ==
  {NoReplayFault,
   [klass |-> "InvokerHolder", outcome |-> "other_archived"],
   [klass |-> "JfrEvent", outcome |-> "other_archived"],
   [klass |-> "SqlDate", outcome |-> "transformed"],
   [klass |-> "AppSub", outcome |-> "exception"],
   [klass |-> "LambdaFormMH", outcome |-> "exception"],
   [klass |-> "AppMain", outcome |-> "init_exception"]}

\* The loaders of the four calls, in the order of the bootstrap.
Loaders == <<"boot", "boot", "platform", "app">>

\* runtime_preload(current, loader): the call number invocations + 1.
RuntimePreload(fault) ==
  /\ stage = "runtime"
  /\ invocations < Len(Loaders)
  /\ \E r \in {runtime_preload(
                 [s |-> [loaded |-> is_loaded, initiating |-> initiating,
                         initialized |-> initialized_from_cds, log |-> <<>>,
                         exc |-> FALSE, fatal |-> FALSE],
                  finished |-> _class_preloading_finished,
                  javabase_only |-> _preload_javabase_only],
                 runtime_config,
                 [static |-> static_klasses, dynamic |-> dynamic_klasses],
                 Loaders[invocations + 1], fault)} :
       /\ is_loaded' = r.s.loaded
       /\ initiating' = r.s.initiating
       /\ initialized_from_cds' = r.s.initialized
       /\ replay_log' = r.s.log
       /\ _class_preloading_finished' = r.finished
       /\ _preload_javabase_only' = r.javabase_only
       /\ stage' = IF r.s.fatal THEN "unrecoverable_loading_error"
                   ELSE IF r.s.exc THEN "exception_mark"
                   ELSE "runtime"
  /\ invocations' = invocations + 1
  /\ last' = Call("runtime_preload", NoClass, fault.klass, FALSE,
                  <<Loaders[invocations + 1], fault.outcome>>)
  /\ UNCHANGED <<config, static_klasses, dynamic_klasses, null_tables,
                 vm_classes, preloaded_classes, processed_classes,
                 platform_initiated, app_initiated, num_vm_klasses, sessions,
                 queries, linked, cp, pending_exception, loaded,
                 indy_worklist, passes, runtime_config, javabase_initialized,
                 observed_finished, archive_vars, thermostat_vars>>

\* The destructor of the ExceptionMark of runtime_preload finds the
\* exception pending and ends the process.
ExceptionMarkExit ==
  /\ stage = "exception_mark"
  /\ stage' = "exited"
  /\ last' = Call("exception_mark", NoClass, NoClass, FALSE, <<>>)
  /\ UNCHANGED <<config, static_klasses, dynamic_klasses, null_tables,
                 vm_classes, preloaded_classes, processed_classes,
                 platform_initiated, app_initiated, num_vm_klasses, sessions,
                 queries>>
  /\ UNCHANGED resolve_vars

\* init_javabase_preloaded_classes()
InitJavabasePreloadedClasses ==
  /\ stage = "runtime"
  /\ invocations >= 1
  /\ ~javabase_initialized
  /\ \E s \in {init_javabase_preloaded_classes(
                 [initialized |-> initialized_from_cds],
                 ListOf(static_klasses, "boot"), 1)} :
       initialized_from_cds' = s.initialized
  /\ javabase_initialized' = TRUE
  /\ last' = Call("init_javabase_preloaded_classes", NoClass, NoClass, FALSE, <<>>)
  /\ UNCHANGED <<config, static_klasses, dynamic_klasses, null_tables,
                 vm_classes, preloaded_classes, processed_classes,
                 platform_initiated, app_initiated, num_vm_klasses, sessions,
                 queries, stage, linked, cp, pending_exception, loaded,
                 indy_worklist, passes, runtime_config,
                 _class_preloading_finished, _preload_javabase_only,
                 is_loaded, initiating, invocations, replay_log,
                 observed_finished, archive_vars, thermostat_vars>>

\* A thread other than the bootstrap asks class_preloading_finished().
ClassPreloadingFinished ==
  /\ stage \in {"runtime", "exception_mark"}
  /\ observed_finished' =
       (observed_finished
          \/ class_preloading_finished(runtime_config, _class_preloading_finished))
  /\ last' = Call("class_preloading_finished", NoClass, NoClass,
                  class_preloading_finished(runtime_config,
                                            _class_preloading_finished), <<>>)
  /\ UNCHANGED <<config, static_klasses, dynamic_klasses, null_tables,
                 vm_classes, preloaded_classes, processed_classes,
                 platform_initiated, app_initiated, num_vm_klasses, sessions,
                 queries, stage, linked, cp, pending_exception, loaded,
                 indy_worklist, passes, runtime_config,
                 _class_preloading_finished, _preload_javabase_only,
                 is_loaded, initiating, initialized_from_cds, invocations,
                 javabase_initialized, replay_log, archive_vars,
                 thermostat_vars>>

NextReplay ==
  \/ \E ids \in VmClassTables : Initialize(ids)
  \/ RecordPreloadedKlasses
  \/ RecordInitiatedKlasses
  \/ \E rc \in RuntimeConfigs, variant \in ArchiveVariants : StartRuntime(rc, variant)
  \/ \E fault \in ReplayFaults : RuntimePreload(fault)
  \/ ExceptionMarkExit
  \/ InitJavabasePreloadedClasses
  \/ ClassPreloadingFinished

SpecReplay == Init /\ [][NextReplay]_vars

(***************************************************************************)
(* Properties of the vm-class table.                                       *)
(***************************************************************************)
\* C1: once initialize() has run, and after any further add_one_vm_class
\* calls, _vm_classes holds, with every class in it, the class's java_super
\* (when it has one) and each of its local interfaces.
C1_VmClassesClosed ==
  "vm" \notin null_tables =>
    \A c \in vm_classes :
      /\ java_super(c) # NoClass => java_super(c) \in vm_classes
      /\ \A i \in 1..Len(local_interfaces(c)) : local_interfaces(c)[i] \in vm_classes

\* A further add_one_vm_class(String) has brought in the interface of String.
C1_Witness ==
  /\ last.op = "add_one_vm_class"
  /\ last.klass = "String"
  /\ {"String", "Comparable", "Integer", "Number", "Object"} \subseteq vm_classes

\* A set X holds the seeds S and, with every class, its direct supertypes.
IsClosedOver(S, X) ==
  /\ S \subseteq X
  /\ \A c \in X : DirectSupers(c) \subseteq X

\* The least set of vm-class candidates that holds S and is closed.
LeastClosed(S) ==
  CHOOSE X \in SUBSET VmCandidates :
    /\ IsClosedOver(S, X)
    /\ \A Y \in SUBSET VmCandidates : IsClosedOver(S, Y) => X \subseteq Y

\* C2: initialize() over the seed table leaves in _vm_classes exactly the
\* least closed set holding the seeds, and add_one_vm_class(ik) adds to the
\* set exactly the least closed set holding ik; nothing else enters.
C2_LeastClosedSuperset ==
  [][/\ last'.op = "initialize" =>
          vm_classes' = LeastClosed(Range(last'.seeds))
     /\ last'.op = "add_one_vm_class" =>
          vm_classes' = vm_classes \cup LeastClosed({last'.klass})]_vars

\* The seed Integer alone gives {Object, Number, Integer}.
C2_Witness ==
  /\ last.op = "initialize"
  /\ last.seeds = <<"Integer">>
  /\ vm_classes = {"Object", "Number", "Integer"}

(***************************************************************************)
(* Properties of can_archive_resolved_klass.  The last call is in last:    *)
(* holder A, resolved class B and the value returned.                      *)
(***************************************************************************)
Queried == last.op = "can_archive_resolved_klass"

\* B is a supertype or an implemented interface of A, transitively.
IsAncestor(A, B) == \E s \in DirectSupers(A) : B \in AllSupers(s)

\* C3: when B is an ancestor of A the call returns true, whatever the sets
\* hold and whatever the tiers of A and B.
C3_AncestorArchivable ==
  (Queried /\ IsAncestor(last.holder, last.klass)) => last.ret = TRUE

\* An app class asking about its app superclass, which is in no set.
C3_Witness ==
  /\ Queried
  /\ last.holder = "AppSub"
  /\ last.klass = "AppMain"
  /\ "AppMain" \notin preloaded_classes
  /\ last.ret = TRUE

\* C4: a boot-tier A, vm class or not, never gets true for an app-tier B,
\* also when B is in the preloaded set.
C4_BootNeverArchivesApp ==
  (Queried /\ class_loader(last.holder) = "boot" /\ class_loader(last.klass) = "app")
    => last.ret = FALSE

\* C5: an app-tier A that is no vm class gets true for a preloaded boot-tier
\* B that is no ancestor, and B is then in the app-initiated table; a
\* platform-tier A likewise with the platform-initiated table; with A and B
\* of the same tier the call adds no initiated record.
C5_InitiatedRecording ==
  [][last'.op = "can_archive_resolved_klass" =>
       LET A == last'.holder
           B == last'.klass
           lower == ~is_vm_class(A) /\ is_preloaded_class(B) /\ ~IsAncestor(A, B)
       IN /\ (lower /\ class_loader(A) = "app" /\ class_loader(B) = "boot")
               => (last'.ret = TRUE /\ B \in DOMAIN app_initiated')
          /\ (lower /\ class_loader(A) = "platform" /\ class_loader(B) = "boot")
               => (last'.ret = TRUE /\ B \in DOMAIN platform_initiated')
          /\ (is_instance_klass(B) /\ class_loader(A) = class_loader(B))
               => UNCHANGED <<platform_initiated, app_initiated>>]_vars

\* An app class got a boot class that only this call put into the table.
C5_Witness ==
  /\ Queried
  /\ last.holder = "AppMain"
  /\ last.klass = "LambdaFormMH"
  /\ last.ret = TRUE
  /\ "LambdaFormMH" \in DOMAIN app_initiated
  /\ "LambdaFormMH" \notin DOMAIN platform_initiated

\* C6 as claimed: an A that is no vm class gets true for every preloaded B,
\* whatever kind of class A is.
C6_PreloadedForEveryHolder ==
  (Queried /\ ~is_vm_class(last.holder) /\ is_preloaded_class(last.klass))
    => last.ret = TRUE

\* C6: an A that is no vm class gets true for a preloaded B that is no
\* ancestor exactly when A carries the boot, platform or app loader type or
\* is a hidden class of the boot loader; an A of another loader gets false.
C6_PreloadedForBuiltinHolder ==
  (Queried /\ ~is_vm_class(last.holder) /\ is_preloaded_class(last.klass)
     /\ ~IsAncestor(last.holder, last.klass) /\ last.holder # last.klass)
    => (last.ret = (\/ shared_class_loader_type(last.holder) # "OTHER"
                    \/ (is_hidden(last.holder) /\ class_loader(last.holder) = "boot")))

\* A hidden boot class without a loader type got a preloaded class.
C6_Witness ==
  /\ Queried
  /\ last.holder = "HiddenX"
  /\ last.klass = "Integer"
  /\ is_preloaded_class("Integer")
  /\ last.ret = TRUE

\* C7: a vm class A gets, for a B that is no ancestor, true exactly when B
\* is a vm class, and the call adds no initiated record.
C7_VmHolder ==
  [][(/\ last'.op = "can_archive_resolved_klass"
      /\ is_vm_class(last'.holder)
      /\ ~IsAncestor(last'.holder, last'.klass)
      /\ last'.holder # last'.klass)
       => /\ last'.ret = is_vm_class(last'.klass)
          /\ UNCHANGED <<platform_initiated, app_initiated>>]_vars

\* A vm class was refused a class that is preloaded but no vm class.
C7_Witness ==
  /\ Queried
  /\ is_vm_class(last.holder)
  /\ is_preloaded_class(last.klass)
  /\ ~is_vm_class(last.klass)
  /\ last.ret = FALSE

\* C8: a B that is neither an ancestor of A nor preloaded gets false, an
\* array class B included, and the call adds no initiated record.
C8_NotPreloaded ==
  [][(/\ last'.op = "can_archive_resolved_klass"
      /\ ~IsAncestor(last'.holder, last'.klass)
      /\ last'.holder # last'.klass
      /\ ~is_preloaded_class(last'.klass))
       => /\ last'.ret = FALSE
          /\ UNCHANGED <<platform_initiated, app_initiated>>]_vars

\* A vm class was refused an array class.
C8_Witness ==
  /\ Queried
  /\ last.holder = "String"
  /\ is_vm_class("String")
  /\ last.klass = "IntArray"
  /\ last.ret = FALSE

(***************************************************************************)
(* Properties of the initiated tables.                                     *)
(***************************************************************************)
\* Some class defined by the loader observably refers to T: T is a declared
\* supertype of it, the call just made resolved T in its pool, or T is in
\* the loader's dictionary.
ObservablyReferenced(loader, T, call) ==
  \/ T \in Dictionary(loader)
  \/ \E X \in InstanceClasses : class_loader(X) = loader /\ T \in DirectSupers(X)
  \/ /\ call.op = "can_archive_resolved_klass"
     /\ class_loader(call.holder) = loader
     /\ call.klass = T

\* The entries an operation has just added to the two tables.
NewPlatformInitiated == DOMAIN platform_initiated' \ DOMAIN platform_initiated
NewAppInitiated == DOMAIN app_initiated' \ DOMAIN app_initiated

\* C9 as claimed: every entry entering the platform- or app-initiated table
\* is a class that the loader does not define and that some class of the
\* loader observably refers to.
C9_InitiatedReferenced ==
  [][/\ \A T \in NewPlatformInitiated :
          class_loader(T) # "platform" /\ ObservablyReferenced("platform", T, last')
     /\ \A T \in NewAppInitiated :
          class_loader(T) # "app" /\ ObservablyReferenced("app", T, last')]_vars

\* C9: every entry entering the platform- or app-initiated table is a class
\* that the loader does not define; it is observably referred to by a class
\* of the loader, or it is a public boot or platform class that the pass
\* add_extra_initiated_klasses of record_preloaded_klasses put into the app
\* table.
C9_InitiatedReferencedOrExtra ==
  [][/\ \A T \in NewPlatformInitiated :
          class_loader(T) # "platform" /\ ObservablyReferenced("platform", T, last')
     /\ \A T \in NewAppInitiated :
          /\ class_loader(T) # "app"
          /\ \/ ObservablyReferenced("app", T, last')
             \/ /\ last'.op = "record_preloaded_klasses"
                /\ is_public(T)
                /\ class_loader(T) \in {"boot", "platform"}]_vars

\* The pass has put a boot class into the app table that no app class
\* refers to.
C9_Witness ==
  /\ last.op = "record_preloaded_klasses"
  /\ "JfrEvent" \in DOMAIN app_initiated
  /\ ~ObservablyReferenced("app", "JfrEvent", last)

(***************************************************************************)
(* Properties of the resolution of constants.                              *)
(***************************************************************************)
\* C10: a call of dumptime_resolve_constants for a class that is already
\* processed changes no constant-pool entry and no table, and a call for a
\* class that is not linked changes nothing either and does not mark the
\* class processed.
C10_ProcessedOnce ==
  [][last'.op = "dumptime_resolve_constants" =>
       LET ik == last'.klass
           untouched == UNCHANGED <<cp, processed_classes, vm_classes,
                                    preloaded_classes, platform_initiated,
                                    app_initiated>>
       IN /\ ik \in processed_classes => untouched
          /\ ik \notin linked => (untouched /\ ik \notin processed_classes')]_vars

\* A second call for a processed class whose first call stopped at the
\* string entry: the entries are still unresolved and stay so.
C10_Witness ==
  /\ last.op = "dumptime_resolve_constants"
  /\ last.klass = "LambdaFormMH"
  /\ last.ret = FALSE
  /\ "LambdaFormMH" \in linked
  /\ "LambdaFormMH" \in processed_classes
  /\ cp["LambdaFormMH"][1] = "unresolved"
  /\ cp["LambdaFormMH"][2] = "unresolved"

(***************************************************************************)
(* Properties of prelinking with a training mask.                          *)
(***************************************************************************)
PreresolveOps ==
  {"preresolve_class_cp_entries", "preresolve_field_and_method_cp_entries",
   "preresolve_indy_cp_entries"}

\* C11: a preresolve call with a mask that marks index K unexercised leaves
\* entry K unresolved when it was unresolved before, whatever kind of entry
\* K is, also when K is the class entry of a field or method reference
\* whose own index is marked exercised.
C11_MaskRespected ==
  [][last'.op \in PreresolveOps =>
       \A K \in AllIndices :
         (~last'.seeds[K] /\ cp[last'.klass][K] # "resolved")
           => cp'[last'.klass][K] # "resolved"]_vars

(***************************************************************************)
(* Prelinking and class loading.                                           *)
(***************************************************************************)
ClassAndFmiOps ==
  {"preresolve_class_cp_entries", "preresolve_field_and_method_cp_entries"}

\* C12: preresolve_class_cp_entries and preresolve_field_and_method_cp_entries
\* (through maybe_resolve_fmi_ref) never load a class: a class entry they
\* resolve names a class that find_loaded_class finds from the loader of the
\* holder (app, then platform, then boot), and the set of loaded classes
\* is the same after the call as before it.
C12_NoFreshLoad ==
  [][last'.op \in ClassAndFmiOps =>
       /\ loaded' = loaded
       /\ \A K \in AllIndices :
            (/\ PoolLayout[K].kind = "Class"
             /\ cp[last'.klass][K] # "resolved"
             /\ cp'[last'.klass][K] = "resolved")
              => find_loaded_class(class_loader(last'.klass), PoolLayout[K].name)
                   # NoClass]_vars

\* A pass over the pool of AppMain with every entry exercised resolved the
\* entry of the loaded HexFormat and left the entry of Custom, which the
\* app loader has not loaded, unresolved.
C12_Witness ==
  /\ last.op = "preresolve_class_cp_entries"
  /\ last.klass = "AppMain"
  /\ last.seeds[3] /\ last.seeds[9]
  /\ cp["AppMain"][3] = "unresolved"
  /\ cp["AppMain"][9] = "resolved"
  /\ loaded = InitiallyLoaded


(***************************************************************************)
(* Faults during resolution.                                               *)
(***************************************************************************)
ResolutionOps == PreresolveOps \cup {"dumptime_resolve_constants"}

\* C13: no call to dumptime_resolve_constants, preresolve_class_cp_entries,
\* preresolve_field_and_method_cp_entries or preresolve_indy_cp_entries
\* returns with a pending exception: a fault on a string, class, field,
\* method or call site entry is discarded where it occurs.
C13_NoPendingException ==
  last.op \in ResolutionOps => ~pending_exception

(***************************************************************************)
(* Archivable field references.                                            *)
(***************************************************************************)
\* C14: can_archive_resolved_field(cp, i) answers true exactly when the
\* declaring-class entry of field reference i is resolved, the class it
\* names passes can_archive_resolved_klass for the holder of the pool, the
\* field is found in that class, and the field is not static.
C14_FieldArchivable ==
  [][last'.op = "can_archive_resolved_field" =>
       LET i == last'.seeds[1]
           holder == last'.holder
       IN last'.ret <=>
            /\ cp[holder][PoolLayout[i].klass_index] = "resolved"
            /\ can_archive_resolved_klass(
                 [plat |-> platform_initiated, app |-> app_initiated],
                 holder, last'.klass).ret
            /\ PoolLayout[i].found
            /\ ~PoolLayout[i].static]_vars

\* The query was refused for a static field of a resolved class that is
\* archivable for the holder.
C14_Witness ==
  /\ last.op = "can_archive_resolved_field"
  /\ ~last.ret
  /\ PoolLayout[last.seeds[1]].static
  /\ PoolLayout[last.seeds[1]].found
  /\ cp[last.holder][PoolLayout[last.seeds[1]].klass_index] = "resolved"
  /\ can_archive_resolved_klass(
       [plat |-> platform_initiated, app |-> app_initiated],
       last.holder, last.klass).ret

(***************************************************************************)
(* Archivable dynamic call sites.                                          *)
(***************************************************************************)
IsLambdaCallSite(bsm) ==
  bsm[1] = "LambdaMetafactory" /\ bsm[2] \in {"metafactory", "altMetafactory"}

\* The class or one of its supertypes, direct or not, declares a static
\* initializer.
DeclaresClinit(type) == \E s \in AllSupers(type) : has_class_initializer(s)

\* C15: is_indy_archivable answers false for a call site of
\* LambdaMetafactory when the interface the call site returns, or a
\* superclass or superinterface of it at any distance, declares a static
\* initializer.
C15_ClinitNotArchivable ==
  (/\ last.op = "is_indy_archivable"
   /\ IsLambdaCallSite(last.seeds)
   /\ DeclaresClinit(last.klass))
    => ~last.ret

\* A call site that passes every other test is refused because a
\* superinterface of its loaded interface declares the initializer.
C15_Witness ==
  /\ last.op = "is_indy_archivable"
  /\ ~last.ret
  /\ last.seeds = MetafactoryBsm
  /\ last.holder = "AppMain"
  /\ last.klass = "SubIntf"
  /\ ~has_class_initializer("SubIntf")
  /\ ArchiveInvokeDynamic /\ can_write

\* C16: is_indy_archivable answers true only for a call site of a class of
\* a builtin loader whose bootstrap method is
\* StringConcatFactory.makeConcatWithConstants, or is
\* LambdaMetafactory.metafactory or altMetafactory with its exact signature
\* and a return type that is loaded and is an interface; for every other
\* bootstrap method the answer is false.
C16_AllowList ==
  (last.op = "is_indy_archivable" /\ last.ret)
    => /\ is_builtin_loader(last.holder)
       /\ \/ last.seeds[1] = "StringConcatFactory"
               /\ last.seeds[2] = "makeConcatWithConstants"
          \/ /\ last.seeds \in {MetafactoryBsm, AltMetafactoryBsm}
             /\ find_loaded_class(class_loader(last.holder), last.klass) # NoClass
             /\ is_interface(last.klass)

\* An altMetafactory call site with a loaded interface got the answer true.
C16_Witness ==
  /\ last.op = "is_indy_archivable"
  /\ last.ret
  /\ last.seeds = AltMetafactoryBsm
  /\ last.klass = "Comparable"

(***************************************************************************)
(* Call sites outside the allow-list.                                      *)
(***************************************************************************)
IndyIndices == {K \in AllIndices : PoolLayout[K].kind = "InvokeDynamic"}

\* The pair (ik, K) is on the worklist.
OnWorklist(worklist, ik, K) ==
  \E i \in 1..Len(worklist) :
    /\ worklist[i].klass = ik
    /\ \E j \in 1..Len(worklist[i].indices) : worklist[i].indices[j] = K

\* An unresolved call site of the pool of ik that is_indy_archivable refuses.
OutsideAllowList(ik, K) ==
  /\ cp[ik][K] # "resolved"
  /\ ~is_indy_archivable(ik, PoolLayout[K])

\* C17 as stated: a pass of preresolve_indy_cp_entries leaves an unresolved
\* call site outside the allow-list unresolved, and when the worklist is
\* recorded after the pass the pair of the class and the index is on it.
C17_DeferredOnWorklist ==
  [][/\ last'.op = "preresolve_indy_cp_entries" =>
          \A K \in IndyIndices :
            OutsideAllowList(last'.klass, K) => cp'[last'.klass][K] # "resolved"
     /\ (/\ last.op = "preresolve_indy_cp_entries"
         /\ has_cp_cache(last.klass) /\ ArchiveInvokeDynamic
         /\ last'.op = "record_resolved_indys") =>
          \A K \in IndyIndices :
            OutsideAllowList(last.klass, K)
              => OnWorklist(indy_worklist', last.klass, K)]_vars

\* C17, amended: a pass of preresolve_indy_cp_entries leaves an unresolved
\* call site outside the allow-list unresolved and does not touch the
\* worklist; record_resolved_indys puts on the worklist exactly the pairs
\* of a class with a cache and the index of a call site that is resolved,
\* so the call site left unresolved is not on it.
C17_ResolvedOnWorklist ==
  [][/\ last'.op = "preresolve_indy_cp_entries" =>
          /\ indy_worklist' = indy_worklist
          /\ \A K \in IndyIndices :
               OutsideAllowList(last'.klass, K) => cp'[last'.klass][K] # "resolved"
     /\ last'.op = "record_resolved_indys" =>
          \A ik \in PoolHolders, K \in IndyIndices :
            OnWorklist(indy_worklist', ik, K)
              <=> (has_cp_cache(ik) /\ cp[ik][K] = "resolved")]_vars

\* After a pass over the pool of AppMain the worklist was recorded: the
\* string concatenation call site, resolved by the pass, is on it and the
\* call site of another bootstrap method, left unresolved, is not.
C17_Witness ==
  /\ last.op = "record_resolved_indys"
  /\ cp["AppMain"][13] = "resolved"
  /\ cp["AppMain"][16] # "resolved"
  /\ OnWorklist(indy_worklist, "AppMain", 13)
  /\ ~OnWorklist(indy_worklist, "AppMain", 16)

(***************************************************************************)
(* The preload lists that record_preloaded_klasses writes.                 *)
(***************************************************************************)
\* The tiers in the order of their replay.
Tiers == <<"boot", "boot2", "platform", "app">>

\* The table that record_preloaded_klasses(is_static_archive) writes.
RecordedTable == IF DynamicDumpSharedSpaces THEN dynamic_klasses ELSE static_klasses

Recorded == last.op = "record_preloaded_klasses"

InList(list, ik) == \E i \in 1..Len(list) : list[i] = ik

\* C18: in each list that record_preloaded_klasses produces, a direct
\* supertype or local interface S of a class C of the list, when S is in
\* the list too, stands at a smaller index than C.
C18_SupertypesFirst ==
  Recorded =>
    \A t \in 1..Len(Tiers) :
      \A i, j \in 1..Len(RecordedTable[Tiers[t]]) :
        RecordedTable[Tiers[t]][j] \in DirectSupers(RecordedTable[Tiers[t]][i])
          => j < i

\* The app list holds AppMain before its subclass AppSub, which comes first
\* in klasses().
C18_Witness ==
  /\ Recorded
  /\ \E i, j \in 1..Len(RecordedTable.app) :
       /\ RecordedTable.app[j] = "AppMain"
       /\ RecordedTable.app[i] = "AppSub"
       /\ j < i

\* S was recorded by an earlier archive layer: the dump is a dynamic one and
\* S lives in the base archive.
InEarlierLayer(S) == DynamicDumpSharedSpaces /\ is_shared(S)

\* C19: the recorded preload lists are closed: each direct supertype and
\* local interface of a class recorded in the list of a tier is a vm class,
\* or was recorded by an earlier archive layer, or is recorded in the list
\* of the same tier or of a tier replayed earlier (boot, boot2, platform,
\* app in this order).
C19_ListsClosed ==
  Recorded =>
    \A t \in 1..Len(Tiers) :
      \A i \in 1..Len(RecordedTable[Tiers[t]]) :
        \A S \in DirectSupers(RecordedTable[Tiers[t]][i]) :
          \/ is_vm_class(S)
          \/ InEarlierLayer(S)
          \/ \E u \in 1..t : InList(RecordedTable[Tiers[u]], S)

\* C20: no vm class stands in a list that record_preloaded_klasses wrote,
\* and every vm class is in _preloaded_classes, the set is_preloaded_class
\* asks.
C20_VmClassesNotRecorded ==
  /\ "vm" \notin null_tables => \A ik \in vm_classes : is_preloaded_class(ik)
  /\ Recorded =>
       \A t \in 1..Len(Tiers) :
         \A i \in 1..Len(RecordedTable[Tiers[t]]) :
           ~is_vm_class(RecordedTable[Tiers[t]][i])

\* The lists were written while Integer, which klasses() holds, was a vm
\* class: it is preloaded and the boot list, not empty, does not hold it.
C20_Witness ==
  /\ Recorded
  /\ is_vm_class("Integer")
  /\ is_preloaded_class("Integer")
  /\ Len(RecordedTable.boot) > 0
  /\ ~InList(RecordedTable.boot, "Integer")

\* The loader type record_preloaded_klasses(bool) hands to the recorder of a
\* tier.
TierLoaderType(tier) ==
  CASE tier \in {"boot", "boot2"} -> "BOOT_LOADER"
    [] tier = "platform" -> "PLATFORM_LOADER"
    [] tier = "app" -> "APP_LOADER"

\* C21: each class in the list of a tier has the loader type of the tier;
\* the boot list holds only classes of java.base or lambda-form hidden
\* classes and the boot2 list only boot classes outside java.base; no class
\* stands in the lists of two tiers.
C21_TiersPartition ==
  Recorded =>
    /\ \A t \in 1..Len(Tiers) :
         \A i \in 1..Len(RecordedTable[Tiers[t]]) :
           buffered_shared_class_loader_type(RecordedTable[Tiers[t]][i])
             = TierLoaderType(Tiers[t])
    /\ \A i \in 1..Len(RecordedTable.boot) :
         \/ module_is_javabase(RecordedTable.boot[i])
         \/ (is_hidden(RecordedTable.boot[i])
               /\ is_lambda_form_klass(RecordedTable.boot[i]))
    /\ \A i \in 1..Len(RecordedTable.boot2) :
         ~module_is_javabase(RecordedTable.boot2[i])
    /\ \A t, u \in 1..Len(Tiers) :
         t # u => \A i \in 1..Len(RecordedTable[Tiers[t]]) :
                    ~InList(RecordedTable[Tiers[u]], RecordedTable[Tiers[t]][i])

\* All four lists were written non-empty, the boot list holding the
\* lambda-form hidden class.
C21_Witness ==
  /\ Recorded
  /\ \A t \in 1..Len(Tiers) : Len(RecordedTable[Tiers[t]]) > 0
  /\ InList(RecordedTable.boot, "LambdaFormMH")

PhaseRank(phase) ==
  CASE phase = "initiate" -> 1
    [] phase = "preload" -> 2
    [] OTHER -> 3

TableOf(name) == IF name = "static" THEN static_klasses ELSE dynamic_klasses

\* C23: within one invocation and one table the sub-phases run in order:
\* every initiated class is registered before any class of the preload list
\* is loaded, and every class of the preload list has been loaded or found
\* loaded before any class is restored from its preinitialized state or
\* pre-linked.
C23_PhasesInOrder ==
  /\ \A i, j \in 1..Len(replay_log) :
       (i < j /\ replay_log[i].table = replay_log[j].table)
         => PhaseRank(replay_log[i].phase) <= PhaseRank(replay_log[j].phase)
  /\ \A j \in 1..Len(replay_log) :
       PhaseRank(replay_log[j].phase) = 3 =>
         \A n \in 1..Len(ListOf(TableOf(replay_log[j].table), Tiers[invocations])) :
           \E i \in 1..(j - 1) :
             /\ replay_log[i].phase = "preload"
             /\ replay_log[i].table = replay_log[j].table
             /\ replay_log[i].klass =
                  ListOf(TableOf(replay_log[j].table), Tiers[invocations])[n]

\* One invocation has gone through the three sub-phases for one table.
C23_Witness ==
  \E i, j, k \in 1..Len(replay_log) :
    /\ replay_log[i].phase = "initiate"
    /\ replay_log[j].phase = "preload" /\ ~replay_log[j].was_loaded
    /\ replay_log[k].phase = "initialize"
    /\ replay_log[i].table = replay_log[j].table
    /\ replay_log[j].table = replay_log[k].table

\* The class-loading API has answered the load of a class of the preload
\* list with a class that is not the archived one.
IdentityMismatch ==
  /\ last.op = "runtime_preload"
  /\ last.seeds[2] \in {"transformed", "other_archived"}
  /\ \E i \in 1..Len(replay_log) :
       /\ replay_log[i].phase = "preload"
       /\ replay_log[i].klass = last.klass
       /\ ~replay_log[i].was_loaded
       /\ ~is_hidden(last.klass)

\* C24: when the class-loading API returns a class other than the archived
\* one, the replay ends in the unrecoverable-loading-error state, unless the
\* returned class is an archived class of the same name and the class is one
\* of the regenerated adapter classes: then the replay goes on without error.
C24_MismatchIsFatal ==
  IdentityMismatch =>
    IF last.seeds[2] = "other_archived" /\ may_be_regenerated_class(last.klass)
      THEN stage = "runtime"
      ELSE stage = "unrecoverable_loading_error"

\* A transformed class was returned and the replay has ended.
C24_Witness ==
  /\ IdentityMismatch
  /\ last.seeds[2] = "transformed"
  /\ stage = "unrecoverable_loading_error"

\* The class-loading API has raised an exception for a class of the preload
\* list that the invocation tried to load.
LoadFailure ==
  /\ last.op = "runtime_preload"
  /\ last.seeds[2] = "exception"
  /\ \E i \in 1..Len(replay_log) :
       /\ replay_log[i].phase = "preload"
       /\ replay_log[i].klass = last.klass
       /\ ~replay_log[i].was_loaded

\* C25: a failure to load one class of a preload list, other than an
\* identity mismatch, neither ends the process nor stops the replay: the
\* other classes of the tier, in both tables, are still loaded.
C25_LoadFailureSkipsOneClass ==
  LoadFailure =>
    /\ stage = "runtime"
    /\ \A n \in 1..Len(ListOf(static_klasses, Tiers[invocations])) :
         ListOf(static_klasses, Tiers[invocations])[n] \in is_loaded \cup {last.klass}
    /\ \A n \in 1..Len(ListOf(dynamic_klasses, Tiers[invocations])) :
         ListOf(dynamic_klasses, Tiers[invocations])[n] \in is_loaded \cup {last.klass}

\* The four invocations and init_javabase_preloaded_classes have returned.
ReplayComplete ==
  /\ stage = "runtime"
  /\ invocations = Len(Loaders)
  /\ javabase_initialized

\* The classes of the preload lists of the tiers 1..last_tier of both tables
\* that carry a preinitialized mirror.
PreinitializedUpTo(last_tier) ==
  {k \in InstanceClasses :
     /\ has_preinitialized_mirror(k)
     /\ \E t \in 1..last_tier :
          \/ InList(ListOf(static_klasses, Tiers[t]), k)
          \/ InList(ListOf(dynamic_klasses, Tiers[t]), k)}

RestoredLists ==
  {k \in InstanceClasses :
     /\ has_preinitialized_mirror(k)
     /\ \/ InList(ListOf(static_klasses, "boot"), k)
        \/ InList(ListOf(static_klasses, "boot2"), k)
        \/ InList(ListOf(dynamic_klasses, "boot2"), k)
        \/ /\ runtime_config.has_platform_or_app_classes
           /\ \E t \in 3..4 :
                \/ InList(ListOf(static_klasses, Tiers[t]), k)
                \/ InList(ListOf(dynamic_klasses, Tiers[t]), k)}

C27_FlagMonotonic ==
  /\ ~_class_preloading_finished
  /\ [][/\ stage' = "runtime" /\ stage # "runtime" /\ stage # "exception_mark"
            => ~_class_preloading_finished'
        /\ _class_preloading_finished => _class_preloading_finished'
        /\ observed_finished =>
             /\ observed_finished'
             /\ class_preloading_finished(runtime_config',
                                          _class_preloading_finished')]_vars

\* A reader has seen true in a process that uses an archive, after the
\* four invocations.
C27_Witness ==
  /\ runtime_config.UseSharedSpaces
  /\ invocations = Len(Loaders)
  /\ observed_finished
  /\ last.op = "class_preloading_finished"
  /\ last.ret

\* C28 as claimed: with an archive in use, whenever the flag is true
\* runtime_preload has been invoked for the app loader.
C28_PublishedAfterApp ==
  (runtime_config.UseSharedSpaces /\ _class_preloading_finished)
    => invocations = Len(Loaders)

\* C28, amended: with an archive in use the flag is true only after the
\* invocation for the app loader or, when the archived platform and app
\* classes are disabled, after the invocation for the platform loader; the
\* two invocations for the boot loader never store it.
C28_PublishedAfterAppOrDisabled ==
  (runtime_config.UseSharedSpaces /\ _class_preloading_finished) =>
    \/ invocations = Len(Loaders)
    \/ /\ ~runtime_config.has_platform_or_app_classes
       /\ invocations = 3
       /\ Loaders[invocations] = "platform"

\* The invocation for the app loader has replayed its lists and stored the
\* flag.
C28_Witness ==
  /\ runtime_config.UseSharedSpaces
  /\ runtime_config.has_platform_or_app_classes
  /\ last.op = "runtime_preload"
  /\ Loaders[invocations] = "app"
  /\ Len(replay_log) > 0
  /\ _class_preloading_finished

\* The classes of the four preload lists of both tables.
PreloadListed ==
  {k \in InstanceClasses :
     \E t \in 1..Len(Tiers) :
       \/ InList(ListOf(static_klasses, Tiers[t]), k)
       \/ InList(ListOf(dynamic_klasses, Tiers[t]), k)}

\* C29: when a reader sees class_preloading_finished() return true while an
\* archive is in use and the archived platform and app classes are enabled,
\* every class of the boot-core, boot-other, platform and app lists of both
\* tables has been loaded.
C29_FinishedImpliesLoaded ==
  (/\ last.op = "class_preloading_finished"
   /\ last.ret
   /\ runtime_config.UseSharedSpaces
   /\ runtime_config.has_platform_or_app_classes)
    => PreloadListed \subseteq is_loaded

\* The mapped tables have no class in the app list.
NoAppClasses ==
  /\ ListOf(static_klasses, "app") = <<>>
  /\ ListOf(dynamic_klasses, "app") = <<>>

\* C30: the invocation for the app loader on tables without app classes
\* loads no class, and when the invocation for the app loader has returned
\* class_preloading_finished() is true, with or without an archive.
C30_AppTierPublishes ==
  [][(last'.op = "runtime_preload" /\ Loaders[invocations'] = "app") =>
       /\ NoAppClasses => is_loaded' = is_loaded
       /\ stage' = "runtime" =>
            class_preloading_finished(runtime_config',
                                      _class_preloading_finished')]_vars

\* The app invocation has returned on an archive with boot and platform
\* classes only, and the flag is set.
C30_Witness ==
  /\ last.op = "runtime_preload"
  /\ Loaders[invocations] = "app"
  /\ stage = "runtime"
  /\ runtime_config.UseSharedSpaces
  /\ runtime_config.has_platform_or_app_classes
  /\ NoAppClasses
  /\ InList(ListOf(static_klasses, "platform"), "SqlDate")
  /\ "SqlDate" \in is_loaded
  /\ _class_preloading_finished

\* C33: after dispose() every class set that initialize() created has been
\* discarded and reset: the five tables are gone and none of them can be
\* reached any more.
C33_DisposeDiscardsAll ==
  last.op = "dispose" =>
    /\ null_tables = TableNames
    /\ vm_classes = {}
    /\ preloaded_classes = {}
    /\ processed_classes = {}
    /\ platform_initiated = EmptyTable
    /\ app_initiated = EmptyTable

\* C39: while the vm-class table exists, _num_vm_klasses is the number of
\* its classes, in every session of the process; adding a class that is in
\* the table changes neither the table nor the counter.
C39_CounterMatchesSet ==
  "vm" \notin null_tables => num_vm_klasses = Cardinality(vm_classes)

\* C38: in a dynamic dump a class that the static archive lists as initiated
\* by the platform (app) loader is not written into the platform (app)
\* initiated list of the dynamic archive, although the dictionary, a
\* supertype, a constant-pool reference or add_extra_initiated_klasses
\* reports it again.
C38_NotRecordedAgain ==
  (last.op = "record_initiated_klasses" /\ DynamicDumpSharedSpaces) =>
    \A k \in InstanceClasses :
      /\ ~(/\ InList(ListOf(static_klasses, "platform_initiated"), k)
           /\ InList(ListOf(dynamic_klasses, "platform_initiated"), k))
      /\ ~(/\ InList(ListOf(static_klasses, "app_initiated"), k)
           /\ InList(ListOf(dynamic_klasses, "app_initiated"), k))

\* A dynamic dump has written its initiated lists; Object and HexFormat,
\* listed by the static archive, were reported again for the platform
\* loader and the dynamic app list is not empty.
C38_Witness ==
  /\ last.op = "record_initiated_klasses"
  /\ DynamicDumpSharedSpaces
  /\ InList(ListOf(static_klasses, "platform_initiated"), "HexFormat")
  /\ "HexFormat" \in DOMAIN platform_initiated
  /\ "HexFormat" \in Dictionary("platform")
  /\ Len(ListOf(dynamic_klasses, "app_initiated")) > 0

\* The classes whose class, field and method entries
\* dumptime_resolve_constants resolves: regenerated adapter classes and
\* archivable hidden classes of the builtin loaders.
EagerlyResolved(ik) ==
  /\ is_builtin_loader(ik)
  /\ \/ may_be_regenerated_class(ik)
     \/ (is_hidden(ik) /\ is_archivable_hidden_klass(ik))

\* C35: for a class that is not a regenerated adapter class or an archivable
\* hidden class of a builtin loader, dumptime_resolve_constants leaves every
\* class, field and method entry of the pool in the state it had.
C35_OnlyStringsResolved ==
  [][(last'.op = "dumptime_resolve_constants" /\ ~EagerlyResolved(last'.klass)) =>
       \A K \in AllIndices :
         PoolLayout[K].kind \in {"Class", "Fieldref", "Methodref"}
           => cp'[last'.klass][K] = cp[last'.klass][K]]_vars

\* The first call for the linked AppMain has resolved its string entry and
\* left its class and field entries unresolved.
C35_Witness ==
  /\ last.op = "dumptime_resolve_constants"
  /\ last.klass = "AppMain"
  /\ last.ret
  /\ cp["AppMain"][1] = "resolved"
  /\ cp["AppMain"][9] = "unresolved"
  /\ cp["AppMain"][10] = "unresolved"

(***************************************************************************)
(* The worklist that record_resolved_indys writes.                         *)
(***************************************************************************)
\* The positions of the class array that hold ik.
WorklistPositions(worklist, ik) ==
  {i \in 1..Len(worklist) : worklist[i].klass = ik}

\* The call sites of the pool of ik that are resolved.
ResolvedCallSites(ik) ==
  {K \in IndyIndices : has_cp_cache(ik) /\ cp[ik][K] = "resolved"}

\* The indices of a sequence of indices, and whether none is repeated.
IndexSet(indices) == {indices[j] : j \in 1..Len(indices)}

\* C36: after record_resolved_indys found a resolved call site, a class is
\* at one position of the worklist when it has a resolved call site and at
\* none otherwise, and the index list at that position holds the indices
\* of the resolved call sites of the class, each once.
C36_WorklistIsResolvedSites ==
  [][(/\ last'.op = "record_resolved_indys"
      /\ \E ik \in PoolHolders : ResolvedCallSites(ik) # {}) =>
       /\ \A i \in 1..Len(indy_worklist') :
            indy_worklist'[i].klass \in PoolHolders
       /\ \A ik \in PoolHolders :
            /\ Cardinality(WorklistPositions(indy_worklist', ik))
                 = IF ResolvedCallSites(ik) # {} THEN 1 ELSE 0
            /\ \A i \in WorklistPositions(indy_worklist', ik) :
                 /\ IndexSet(indy_worklist'[i].indices) = ResolvedCallSites(ik)
                 /\ Len(indy_worklist'[i].indices)
                      = Cardinality(ResolvedCallSites(ik))]_vars

\* The worklist was recorded while AppMain had two resolved call sites and
\* Custom, linked as well, had none: AppMain is the one class on it.
C36_Witness ==
  /\ last.op = "record_resolved_indys"
  /\ has_cp_cache("Custom")
  /\ ResolvedCallSites("Custom") = {}
  /\ Cardinality(ResolvedCallSites("AppMain")) = 2
  /\ Len(indy_worklist) = 1
  /\ indy_worklist[1].klass = "AppMain"
  /\ Len(indy_worklist[1].indices) = 2

(***************************************************************************)
(* The worklist in the final stage.                                        *)
(***************************************************************************)
\* C37: preresolve_indys_from_preimage changes only call sites whose class
\* and index are on the worklist it was called with, the worklist is null
\* when it returns, and a call that follows it changes no pool.
C37_OnlyWorklistThenDiscarded ==
  [][/\ last'.op = "preresolve_indys_from_preimage" =>
          /\ indy_worklist' = NoWorklist
          /\ \A ik \in PoolHolders, K \in AllIndices :
               cp'[ik][K] # cp[ik][K]
                 => /\ K \in IndyIndices
                    /\ OnWorklist(indy_worklist, ik, K)
     /\ (/\ last.op = "preresolve_indys_from_preimage"
         /\ last'.op = "preresolve_indys_from_preimage") => cp' = cp]_vars

\* The final stage resolved the call site of AppMain that was on the
\* worklist and left another call site of AppMain, which the allow-list
\* admits but the worklist did not name, unresolved; the worklist is null.
C37_Witness ==
  /\ last.op = "preresolve_indys_from_preimage"
  /\ OnWorklist(last.seeds, "AppMain", 13)
  /\ cp["AppMain"][13] = "resolved"
  /\ \E K \in IndyIndices :
       /\ ~OnWorklist(last.seeds, "AppMain", K)
       /\ is_indy_archivable("AppMain", PoolLayout[K])
       /\ cp["AppMain"][K] = "unresolved"
  /\ indy_worklist = NoWorklist

(***************************************************************************)
(* The lists that each of the four invocations replays.                    *)
(***************************************************************************)
\* The classes that the log of the last invocation names for one sub-phase
\* and one table, in the order of the log.
LoggedKlasses(log, phase, table) ==
  [i \in 1..Len(SelectSeq(log, LAMBDA ev : ev.phase = phase /\ ev.table = table))
     |-> SelectSeq(log, LAMBDA ev : ev.phase = phase /\ ev.table = table)[i].klass]

\* The invocation that has just returned went, in each table, through the
\* preload list and the initiated list of its own tier and through no
\* other list.
ReplayedOwnLists ==
  \A name \in {"static", "dynamic"} :
    /\ LoggedKlasses(replay_log, "preload", name)
         = ListOf(TableOf(name), Tiers[invocations])
    /\ LoggedKlasses(replay_log, "initiate", name)
         = InitiatedList(TableOf(name), Loaders[invocations])

SerializedTable ==
  IF last.seeds[2] = "reading" THEN mapped[last.seeds[1]]
  ELSE IF last.seeds[1] = "static" THEN static_klasses
  ELSE dynamic_klasses

\* C31: a serialize() call flags the archive as carrying preload data if
\* and only if the boot-core list or the boot-other list of its table holds
\* a class.
C31_FlaggedIffBootClasses ==
  last.op = "serialize" =>
    (last.ret <=> \/ Len(ListOf(SerializedTable, "boot")) > 0
                  \/ Len(ListOf(SerializedTable, "boot2")) > 0)

\* C32: after the table of an archive was written and read back, the six
\* lists that the mapping process holds are the lists that were written,
\* null where they were null, and for the static archive the worklist is
\* the worklist that was written.
C32_RoundTrip ==
  (last.op = "serialize" /\ last.seeds[2] = "reading") =>
    /\ mapped[last.seeds[1]]
         = IF last.seeds[1] = "static" THEN static_klasses ELSE dynamic_klasses
    /\ last.seeds[1] = "static" =>
         /\ mapped.worklist = indy_worklist
         /\ KlassesPtr(mapped.worklist) = KlassesPtr(indy_worklist)
         /\ CpIndexListsPtr(mapped.worklist) = CpIndexListsPtr(indy_worklist)

\* The static archive was read back with lists of two classes, a list that
\* is empty and a worklist of two classes.
C32_Witness ==
  /\ last.op = "serialize"
  /\ last.seeds = <<"static", "reading">>
  /\ mapped.static = BootOtherOnlyKlasses
  /\ Len(mapped.worklist) = 2
  /\ mapped.worklist[2].indices = <<14, 13>>

(***************************************************************************)
(* The windows of the thermostat.                                          *)
(***************************************************************************)
\* The ticks that the windows written so far have left over.
TicksLeftOver ==
  SubSeq(window_ticks, samples_per_window + 1, Len(window_ticks))

\* C40: when sample_window() returns it has written samples_per_window
\* slots, overflowed_idle_samples is not negative, the slots are the next
\* samples_per_window ticks in order, idle ticks and samples alike, and
\* the ticks left over are the overflowed idle ticks followed by the one
\* sample that was deferred.
C40_NoTickLost ==
  /\ overflowed_idle_samples >= 0
  /\ last.op = "sample_window" =>
       /\ current = samples_per_window
       /\ Len(window_ticks) >= samples_per_window
       /\ samples = SubSeq(window_ticks, 1, samples_per_window)
       /\ \/ /\ TicksLeftOver = <<>>
             /\ overflowed_idle_samples = 0
          \/ TicksLeftOver = Ticks(overflowed_idle_samples, overflow_sample)

============================================================================
